---- MODULE Spec2Model ----
(***************************************************************************)
(* LingoChamp (english-word-trainer): the phase controller of src/App.tsx  *)
(* (first component of the file, lines 44-808) as a state machine.         *)
(*                                                                         *)
(* One action per event handler, recogniser callback and timer callback.   *)
(* A handler runs to completion and React re-renders (and runs the ref     *)
(* effects of lines 70 and 72) before the next event, so phaseRef.current  *)
(* is phase and currentWordRef.current is words[currentWordIndex] whenever *)
(* an action starts.  What a callback closed over when it was created is   *)
(* kept in the timer record (the values of the render that scheduled it)   *)
(* or is a first-render value (the recogniser callbacks, created once by   *)
(* the effect of lines 179-237 with an empty dependency list).             *)
(*                                                                         *)
(* Strings are sequences of one-character strings, so that trim() and      *)
(* toLowerCase() are computed and not assumed.                             *)
(***************************************************************************)
EXTENDS Integers, Sequences, FiniteSets, TLC

\* ------------------------------------------------------------------ bounds
\* a learning-mode handler schedules a timer only while fewer than this many
\* setTimeout callbacks are pending
MaxTimers == 3
\* an easy-test handler schedules a timer only while fewer than this many are
MaxTestTimers == 2
\* and a hard-test handler while fewer than this many are
MaxHardTimers == 1
\* at most this many tests are generated in one behaviour
MaxTests == 1
\* and this many more where only one kind of test is taken
MaxRetries == 1
\* at most this many hint requests are in flight at once
MaxHintRequests == 2
\* a list of up to this many elements is shuffled into every order, a longer
\* one into MaxRotations rotations and their reversals
\* new Date() gives one of the instants 0..MaxInstant (milliseconds)
MaxInstant == 0
\* getExampleSentence is called at most this many times
MaxSentenceCalls == 3
\* speakWithGoogleTTS is called at most this many times
MaxSpeakCalls == 3
\* cleanupAudioCache is called at most this many times
MaxCleanups == 2
MaxFullShuffle == 4
MaxRotations == 3

\* --------------------------------------------------------------- constants
\* the fixed display delay of every feedback timer (all equal, so pending
\* feedback timers fire in the order in which they were scheduled)
FeedbackDelayMs == 1500
\* generateEasyTest: shuffled.slice(0, 10)
EasyTestSize == 10
\* generateHardTest: shuffled.slice(0, 20)
HardTestSize == 20
\* generateEasyTest: wrong options .slice(0, 3)
WrongOptionCount == 3
\* the significant bits of a double
SignificandBits == 53
\* a number of up to 3 * ChunkBits bits is multiplied in pieces of ChunkBits
\* bits, each small enough for its product with 100
ChunkBits == 20

\* ----------------------------------------------------------------- strings
EmptyString == << >>
\* the value of an optional field that was never set
Undefined == << "undefined" >>

IsWhitespace(c) == c = " "

toLowerCaseChar(c) ==
    CASE c = "O" -> "o"
      [] c = "N" -> "n"
      [] c = "U" -> "u"
      [] c = "P" -> "p"
      [] OTHER -> c

\* String.prototype.toLowerCase
toLowerCase(s) == [i \in 1..Len(s) |-> toLowerCaseChar(s[i])]

RECURSIVE trimStart(_)
trimStart(s) ==
    IF s = << >> THEN s
    ELSE IF IsWhitespace(Head(s)) THEN trimStart(Tail(s)) ELSE s

RECURSIVE trimEnd(_)
trimEnd(s) ==
    IF s = << >> THEN s
    ELSE IF IsWhitespace(s[Len(s)]) THEN trimEnd(SubSeq(s, 1, Len(s) - 1)) ELSE s

\* String.prototype.trim
trim(s) == trimEnd(trimStart(s))

\* ---------------------------------------------------------- word repository
\* ./constants is not part of the sources at hand: a static, ordered list of
\* entries with pairwise distinct clean forms (spec.md section 2 and 3), of a
\* length that nothing states.  WORDS_DATA is therefore a variable that no
\* action changes: the sessions and tests are explored over SmallRepository,
\* test generation and scoring over the lists of Repositories.
SmallRepository ==
    << [cleanWord |-> << "o", "n" >>, translation |-> "ant"],
       [cleanWord |-> << "u", "p" >>, translation |-> "aukstyn"] >>

Letters ==
    << "a", "b", "c", "d", "e", "f", "g", "h", "i", "j",
       "k", "l", "m", "n", "o", "p", "q", "r", "s" >>

\* the n first entries of a list that starts with those of SmallRepository
Repository(n) ==
    [i \in 1..n |->
        IF i <= Len(SmallRepository)
        THEN SmallRepository[i]
        ELSE [cleanWord |-> << "i", Letters[i - Len(SmallRepository)] >>,
              translation |-> "-"]]

\* shorter than a question's options need, shorter than a test, as long as
\* a test, longer
RepositorySizes == { 0, 1, 2, 3, 4, 5, 10, 11, 20, 21 }
Repositories == { Repository(n) : n \in RepositorySizes }

\* what the learner can type, and what the recogniser can transcribe
Inputs ==
    { EmptyString,
      << " ", "O", "n", " " >>,
      << "u", "p" >> }

Transcripts == Inputs \ { EmptyString }

\* ------------------------------------------------------------ sequences
Range(s) == { s[i] : i \in 1..Len(s) }

\* a slip: slice without its end
slice_noEnd(s, n) == s

\* Array.prototype.slice(0, n)
slice(s, n) == SubSeq(s, 1, IF n < Len(s) THEN n ELSE Len(s))

AllOrders(s) ==
    { [i \in 1..Len(s) |-> s[p[i]]] :
        p \in { q \in [1..Len(s) -> 1..Len(s)] :
                  \A i, j \in 1..Len(s) : i # j => q[i] # q[j] } }

Rotate(s, k) == [i \in 1..Len(s) |-> s[((i + k - 1) % Len(s)) + 1]]
Reverse(s) == [i \in 1..Len(s) |-> s[Len(s) + 1 - i]]

\* [...a].sort(() => Math.random() - 0.5): the comparator is inconsistent, so
\* the order of the result is any order; the elements are those of a
Shuffles(s) ==
    IF Len(s) <= MaxFullShuffle
    THEN AllOrders(s)
    ELSE UNION { { Rotate(s, k), Reverse(Rotate(s, k)) } : k \in 0..(MaxRotations - 1) }

\* ------------------------------------------------------------------- state
VARIABLES
    WORDS_DATA,           \* import { WORDS_DATA } from './constants'
    appMode,              \* useState<AppMode>('menu')
    words,                \* useState<Word[]>, set by the mount effect
    currentWordIndex,     \* 0-based, as in the source
    phase,                \* useState<LearningPhase>('welcome'); also phaseRef.current
    feedback,             \* 'correct' | 'incorrect' | null
    inputValue,
    isListening,
    transcript,
    hint,
    isHintLoading,
    hintRequests,         \* the words of the getExampleSentence calls in flight
    micCheckStatus,       \* 'idle' | 'listening' | 'success' | 'error'
    micError,
    testQuestions,
    currentTestIndex,     \* 0-based
    testResult,           \* a sequence of zero or one TestResult (null or set)
    hardTestPhase,
    hardSpellingCorrect,
    localStorage,         \* the item 'lingochamp-test-results': zero or one JSON text
    timers,               \* pending setTimeout callbacks, oldest first
    recognition,          \* the browser's recogniser: idle, starting, listening, closing
    sessionPhase,         \* history: phaseRef.current when the session was started
    checkedQuestion,      \* history: the test and index hardSpellingCorrect was set for
    heardThisVisit,       \* history: a transcript arrived during this visit to mic-check
    testsGenerated,       \* history: number of tests generated so far
    finishedTests,        \* history: the tests for which finishTest has run
    audioCache,           \* ttsService: the entries text -> object URL
    objectURLs,           \* the number of URL.createObjectURL calls; URL n is the nth
    revokedURLs,          \* the object URLs passed to URL.revokeObjectURL
    speakCalls,           \* the speakWithGoogleTTS calls, each with its position
    cleanups,             \* history: number of cleanupAudioCache calls
    voicesLoaded,         \* speechSynthesis.getVoices().length > 0
    VITE_GEMINI_API_KEY,  \* import.meta.env: the key the build was given, or undefined
    sentenceCalls         \* the getExampleSentence calls, each with its position

learningVars == << words, currentWordIndex, phase >>
inputVars == << inputValue, transcript, hint >>
hintVars == << isHintLoading, hintRequests >>
micVars == << isListening, micCheckStatus, micError, recognition, heardThisVisit >>
testVars == << testQuestions, currentTestIndex, testResult, hardTestPhase,
               hardSpellingCorrect, localStorage, testsGenerated, finishedTests >>
ttsVars == << audioCache, objectURLs, revokedURLs, speakCalls, cleanups, voicesLoaded >>
serviceVars == << ttsVars, VITE_GEMINI_API_KEY, sentenceCalls >>
vars == << WORDS_DATA, appMode, words, currentWordIndex, phase, feedback, inputValue,
           hint, isHintLoading, hintRequests, isListening, transcript,
           micCheckStatus, micError, testQuestions,
           currentTestIndex, testResult, hardTestPhase, hardSpellingCorrect,
           localStorage, timers, recognition, sessionPhase, checkedQuestion,
           heardThisVisit,
           testsGenerated,
           finishedTests, audioCache, objectURLs, revokedURLs, speakCalls, cleanups,
           voicesLoaded, VITE_GEMINI_API_KEY, sentenceCalls >>

\* ----------------------------------------------------------------- helpers
\* words[currentWordIndex] is undefined outside the array
HasCurrentWord == currentWordIndex < Len(words)
currentWord == words[currentWordIndex + 1]

HasCurrentQuestion == currentTestIndex < Len(testQuestions)
currentQuestion == testQuestions[currentTestIndex + 1]

\* input.trim().toLowerCase() === word.cleanWord.toLowerCase()
MatchesCleanWord(text, word) ==
    toLowerCase(trim(text)) = toLowerCase(word.cleanWord)

\* renderContent: the learning switch is reached only when no earlier branch
\* returned (appMode 'test-results' always comes with a testResult)
LearningView == appMode = "learning"

\* a setTimeout callback with what it closed over
Timer(kind, isCorrect, idx, len, questions, test) ==
    [kind |-> kind, isCorrect |-> isCorrect, idx |-> idx, len |-> len,
     questions |-> questions, test |-> test]

CanSchedule == Len(timers) < MaxTimers
CanScheduleTest == Len(timers) < MaxTestTimers
CanScheduleHard == Len(timers) < MaxHardTimers

\* the values the recogniser callbacks closed over: those of the first
\* render (words is [] and currentWordIndex 0 until the mount effect ran)
firstRenderWordIndex == 0
firstRenderWordsLength == 0
firstRenderMicCheckStatus == "idle"

\* ------------------------------------------------------------------- Init
\* ttsService.ts and geminiService.ts as loaded
ModulesLoaded ==
    /\ audioCache = {}
    /\ objectURLs = 0
    /\ revokedURLs = {}
    /\ speakCalls = << >>
    /\ cleanups = 0
    /\ voicesLoaded = FALSE
    /\ sentenceCalls = << >>

\* what the build can have for VITE_GEMINI_API_KEY
Keys == { "undefined", "key" }

\* the services of a build that was given its key
ServiceLoaded == ModulesLoaded /\ VITE_GEMINI_API_KEY = "key"

\* the state after the first render and its mount effects
Rendered(data, shuffled) ==
    /\ WORDS_DATA = data
    /\ appMode = "menu"
    /\ words = shuffled
    /\ currentWordIndex = 0
    /\ phase = "welcome"
    /\ feedback = "null"
    /\ inputValue = EmptyString
    /\ isListening = FALSE
    /\ transcript = EmptyString
    /\ hint = EmptyString
    /\ isHintLoading = FALSE
    /\ hintRequests = << >>
    /\ micCheckStatus = "idle"
    /\ micError = "null"
    /\ testQuestions = << >>
    /\ currentTestIndex = 0
    /\ testResult = << >>
    /\ hardTestPhase = "spelling"
    /\ hardSpellingCorrect = FALSE
    /\ localStorage = << >>
    /\ timers = << >>
    /\ recognition = "idle"
    /\ sessionPhase = "none"
    /\ checkedQuestion = << >>
    /\ heardThisVisit = FALSE
    /\ testsGenerated = 0
    /\ finishedTests = {}

Mounted(data, shuffled) == Rendered(data, shuffled) /\ ServiceLoaded

Init == \E shuffled \in Shuffles(SmallRepository) : Mounted(SmallRepository, shuffled)

\* the menu after a hard test over data was left with Exit Test at its second
\* question, the first spelled and pronounced right, its timer fired
Abandoned(data) ==
    /\ WORDS_DATA = data
    /\ appMode = "menu"
    /\ words = data
    /\ currentWordIndex = 0
    /\ phase = "welcome"
    /\ feedback = "null"
    /\ inputValue = EmptyString
    /\ isListening = FALSE
    /\ transcript = EmptyString
    /\ hint = EmptyString
    /\ isHintLoading = FALSE
    /\ hintRequests = << >>
    /\ micCheckStatus = "idle"
    /\ micError = "null"
    /\ testQuestions =
         [i \in 1..Len(slice(data, HardTestSize)) |->
            [word |-> data[i], options |-> << >>, userAnswer |-> Undefined,
             spellingCorrect |-> IF i = 1 THEN "true" ELSE "undefined",
             pronunciationCorrect |-> IF i = 1 THEN "true" ELSE "undefined",
             answered |-> (i = 1)]]
    /\ currentTestIndex = 1
    /\ testResult = << >>
    /\ hardTestPhase = "spelling"
    /\ hardSpellingCorrect = TRUE
    /\ localStorage = << >>
    /\ timers = << >>
    /\ recognition = "idle"
    /\ sessionPhase = "none"
    /\ checkedQuestion = << >>
    /\ heardThisVisit = FALSE
    /\ testsGenerated = 1
    /\ finishedTests = {}
    /\ ServiceLoaded

\* the services as a function of the build's key
InitServices ==
    \E shuffled \in Shuffles(SmallRepository), key \in Keys :
      /\ Rendered(SmallRepository, shuffled)
      /\ ModulesLoaded
      /\ VITE_GEMINI_API_KEY = key

\* test generation as a function of the repository
InitGenerate ==
    \E data \in Repositories :
      \/ Mounted(data, data)
      \/ Len(data) >= 2 /\ Abandoned(data)

\* ---------------------------------------------------------- learning mode
resetForNextWord ==
    /\ feedback' = "null"
    /\ inputValue' = EmptyString
    /\ transcript' = EmptyString
    /\ hint' = EmptyString

handleNextPhase(nextPhase) ==
    /\ phase' = nextPhase
    /\ resetForNextWord

\* handleAdvance as created by the render that saw index idx and length len
handleAdvance(idx, len) ==
    IF idx < len - 1
    THEN /\ currentWordIndex' = currentWordIndex + 1
         /\ handleNextPhase("introduction")
    ELSE /\ currentWordIndex' = currentWordIndex
         /\ handleNextPhase("completed")

\* a slip: the transition made at once instead of in the timer's callback
showFeedbackAndAdvance_eager(isCorrect, idx, len) ==
    /\ feedback' = (IF isCorrect THEN "correct" ELSE "incorrect")
    /\ timers' = Append(timers, Timer("learn", isCorrect, idx, len, << >>, 0))
    /\ phase' = (IF isCorrect /\ phase = "pronunciation" THEN "spelling" ELSE phase)
    /\ UNCHANGED currentWordIndex

\* the part of showFeedbackAndAdvance that runs at once
showFeedbackAndAdvance(isCorrect, idx, len) ==
    /\ feedback' = (IF isCorrect THEN "correct" ELSE "incorrect")
    /\ timers' = Append(timers, Timer("learn", isCorrect, idx, len, << >>, 0))
    /\ UNCHANGED << phase, currentWordIndex >>

\* a slip: the callback without its test of isCorrect
showFeedbackTimeout_anyAnswer(t) ==
    IF phase = "pronunciation"
    THEN /\ phase' = "spelling"
         /\ resetForNextWord
         /\ UNCHANGED currentWordIndex
    ELSE IF phase = "spelling"
         THEN handleAdvance(t.idx, t.len)
         ELSE /\ feedback' = "null"
              /\ UNCHANGED << phase, currentWordIndex, inputVars >>

\* the callback showFeedbackAndAdvance hands to setTimeout
showFeedbackTimeout(t) ==
    IF t.isCorrect
    THEN IF phase = "pronunciation"
         THEN /\ phase' = "spelling"
              /\ resetForNextWord
              /\ UNCHANGED currentWordIndex
         ELSE IF phase = "spelling"
              THEN handleAdvance(t.idx, t.len)
              ELSE UNCHANGED << phase, currentWordIndex, feedback, inputVars >>
    ELSE /\ feedback' = "null"
         /\ UNCHANGED << phase, currentWordIndex, inputVars >>

\* menu: Learning Mode
startLearning ==
    /\ appMode = "menu"
    /\ words' \in Shuffles(WORDS_DATA)
    /\ currentWordIndex' = 0
    /\ phase' = "welcome"
    /\ appMode' = "learning"
    /\ UNCHANGED << feedback, inputVars, micVars, hintVars, testVars, timers >>
    /\ UNCHANGED << WORDS_DATA, serviceVars, sessionPhase, checkedQuestion >>

\* welcome: Start Learning
ClickStartLearning ==
    /\ LearningView /\ phase = "welcome"
    /\ handleNextPhase("mic-check")
    /\ heardThisVisit' = FALSE
    /\ UNCHANGED << appMode, hintVars, words, currentWordIndex, isListening, micCheckStatus,
                    micError, recognition, testVars, timers >>
    /\ UNCHANGED << WORDS_DATA, serviceVars, sessionPhase, checkedQuestion >>

\* mic-check: the microphone button (disabled while isListening)
handleStartMicCheck ==
    /\ LearningView /\ phase = "mic-check"
    /\ ~isListening
    /\ IF recognition = "idle"
       THEN /\ micCheckStatus' = "listening"
            /\ micError' = "null"
            /\ recognition' = "starting"
            /\ sessionPhase' = phase
       ELSE \* start() throws InvalidStateError: the recogniser has started
            /\ micCheckStatus' = "error"
            /\ micError' = "Could not start listening"
            /\ UNCHANGED << recognition, sessionPhase >>
    /\ UNCHANGED << appMode, hintVars, learningVars, feedback, inputVars, isListening,
                    heardThisVisit, testVars, timers >>
    /\ UNCHANGED << WORDS_DATA, serviceVars, checkedQuestion >>

\* mic-check: Continue, rendered when micCheckStatus is 'success'
ClickContinue ==
    /\ LearningView /\ phase = "mic-check"
    /\ micCheckStatus = "success"
    /\ handleNextPhase("introduction")
    /\ UNCHANGED << appMode, words, currentWordIndex, micVars, hintVars, testVars, timers >>
    /\ UNCHANGED << WORDS_DATA, serviceVars, sessionPhase, checkedQuestion >>

\* introduction: I'm ready to practice!
ClickReady ==
    /\ LearningView /\ phase = "introduction" /\ HasCurrentWord
    /\ phase' = "pronunciation"
    /\ UNCHANGED << appMode, words, currentWordIndex, feedback, inputVars,
                    micVars, hintVars, testVars, timers >>
    /\ UNCHANGED << WORDS_DATA, serviceVars, sessionPhase, checkedQuestion >>

\* the text input of the spelling form (learning) and of the hard test
SetInputValue(v) ==
    /\ \/ LearningView /\ phase = "spelling" /\ HasCurrentWord
       \/ appMode = "test-hard" /\ HasCurrentQuestion /\ hardTestPhase = "spelling"
    /\ inputValue # v
    /\ inputValue' = v
    /\ UNCHANGED << appMode, learningVars, feedback, transcript, hint, micVars, hintVars,
                    testVars, timers >>
    /\ UNCHANGED << WORDS_DATA, serviceVars, sessionPhase, checkedQuestion >>

\* spelling: Check Spelling
handleSpellingSubmit ==
    /\ LearningView /\ phase = "spelling" /\ HasCurrentWord
    /\ CanSchedule
    /\ showFeedbackAndAdvance(MatchesCleanWord(inputValue, currentWord),
                              currentWordIndex, Len(words))
    /\ UNCHANGED << appMode, words, inputVars, micVars, hintVars, testVars >>
    /\ UNCHANGED << WORDS_DATA, serviceVars, sessionPhase, checkedQuestion >>

\* a slip: Start Over without setCurrentWordIndex(0)
StartOver_keepsIndex ==
    /\ LearningView /\ phase = "completed"
    /\ words' \in Shuffles(WORDS_DATA)
    /\ handleNextPhase("welcome")
    /\ UNCHANGED << appMode, currentWordIndex, micVars, hintVars, testVars, timers >>
    /\ UNCHANGED << WORDS_DATA, serviceVars, sessionPhase, checkedQuestion >>

\* completed: Start Over
StartOver ==
    /\ LearningView /\ phase = "completed"
    /\ words' \in Shuffles(WORDS_DATA)
    /\ currentWordIndex' = 0
    /\ handleNextPhase("welcome")
    /\ UNCHANGED << appMode, micVars, hintVars, testVars, timers >>
    /\ UNCHANGED << WORDS_DATA, serviceVars, sessionPhase, checkedQuestion >>

\* completed: Main Menu
CompletedMainMenu ==
    /\ LearningView /\ phase = "completed"
    /\ appMode' = "menu"
    /\ UNCHANGED << learningVars, feedback, inputVars, micVars, hintVars, testVars, timers >>
    /\ UNCHANGED << WORDS_DATA, serviceVars, sessionPhase, checkedQuestion >>

\* the sentence the text-generation endpoint returns for a word, trimmed
ExampleSentence(word) == << "a sentence with" >> \o word
\* getExampleSentence's fixed answer to any failure
SorryString == << "Sorry, I couldn't think of an example sentence right now." >>

\* pronunciation, spelling: Need a hint? (disabled while isHintLoading);
\* handleGetHint up to its await
handleGetHint ==
    /\ LearningView /\ phase \in { "pronunciation", "spelling" } /\ HasCurrentWord
    /\ ~isHintLoading
    /\ Len(hintRequests) < MaxHintRequests
    /\ isHintLoading' = TRUE
    /\ hint' = EmptyString
    /\ hintRequests' = Append(hintRequests, currentWord.cleanWord)
    /\ UNCHANGED << appMode, learningVars, feedback, inputValue, transcript,
                    micVars, testVars, timers >>
    /\ UNCHANGED << WORDS_DATA, serviceVars, sessionPhase, checkedQuestion >>

\* handleGetHint after its await: the i-th getExampleSentence call in flight
\* resolved, with the sentence or with its fallback string
HintResolves(i, ok) ==
    /\ i \in 1..Len(hintRequests)
    /\ hint' = (IF ok THEN ExampleSentence(hintRequests[i]) ELSE SorryString)
    /\ isHintLoading' = FALSE
    /\ hintRequests' = SubSeq(hintRequests, 1, i - 1)
                          \o SubSeq(hintRequests, i + 1, Len(hintRequests))
    /\ UNCHANGED << appMode, learningVars, feedback, inputValue, transcript,
                    micVars, testVars, timers >>
    /\ UNCHANGED << WORDS_DATA, serviceVars, sessionPhase, checkedQuestion >>

\* ------------------------------------------------------ speech recognition
\* pronunciation (learning, hard test): the microphone button; start() on a
\* recogniser that has started throws, and the catch only logs
startListening ==
    /\ \/ LearningView /\ phase = "pronunciation" /\ HasCurrentWord
       \/ appMode = "test-hard" /\ HasCurrentQuestion /\ hardTestPhase = "pronunciation"
    /\ ~isListening
    /\ recognition = "idle"
    /\ recognition' = "starting"
    /\ UNCHANGED << appMode, hintVars, learningVars, feedback, inputVars, isListening,
                    micCheckStatus, micError, heardThisVisit, testVars, timers >>
    /\ UNCHANGED << WORDS_DATA, serviceVars, checkedQuestion >>
    /\ sessionPhase' = phase

\* recognition.onstart
onstart ==
    /\ recognition = "starting"
    /\ recognition' = "listening"
    /\ isListening' = TRUE
    /\ UNCHANGED << appMode, hintVars, learningVars, feedback, inputVars, micCheckStatus,
                    micError, heardThisVisit, testVars, timers >>
    /\ UNCHANGED << WORDS_DATA, serviceVars, sessionPhase, checkedQuestion >>

\* recognition.onresult: showFeedbackAndAdvance is the one of the first render
onresult(result) ==
    /\ recognition = "listening"
    /\ recognition' = "closing"
    /\ transcript' = result
    /\ UNCHANGED hint
    /\ IF phase = "mic-check"
       THEN /\ micCheckStatus' = "success"
            /\ heardThisVisit' = TRUE
            /\ UNCHANGED << feedback, timers, phase, currentWordIndex >>
       ELSE IF phase = "pronunciation" /\ HasCurrentWord
            THEN /\ CanSchedule
                 /\ showFeedbackAndAdvance(MatchesCleanWord(result, currentWord),
                                           firstRenderWordIndex, firstRenderWordsLength)
                 /\ UNCHANGED << micCheckStatus, heardThisVisit >>
            ELSE UNCHANGED << micCheckStatus, heardThisVisit, feedback, timers,
                              phase, currentWordIndex >>
    /\ UNCHANGED << appMode, hintVars, words, inputValue, isListening, micError, testVars >>
    /\ UNCHANGED << WORDS_DATA, serviceVars, sessionPhase, checkedQuestion >>

\* recognition.onerror
onerror ==
    /\ recognition \in { "starting", "listening" }
    /\ recognition' = "closing"
    /\ IF phase = "mic-check"
       THEN /\ micCheckStatus' = "error"
            /\ micError' = "Error: check microphone permissions"
       ELSE UNCHANGED << micCheckStatus, micError >>
    /\ UNCHANGED << appMode, hintVars, learningVars, feedback, inputVars, isListening,
                    heardThisVisit, testVars, timers >>
    /\ UNCHANGED << WORDS_DATA, serviceVars, sessionPhase, checkedQuestion >>

\* recognition.onend: micCheckStatus is the one of the first render
onend ==
    /\ recognition \in { "listening", "closing" }
    /\ recognition' = "idle"
    /\ isListening' = FALSE
    /\ IF /\ phase = "mic-check"
          /\ firstRenderMicCheckStatus # "success"
          /\ firstRenderMicCheckStatus = "listening"
       THEN /\ micCheckStatus' = "error"
            /\ micError' = "No speech detected. Please try again."
       ELSE UNCHANGED << micCheckStatus, micError >>
    /\ UNCHANGED << appMode, hintVars, learningVars, feedback, inputVars, heardThisVisit,
                    testVars, timers >>
    /\ UNCHANGED << WORDS_DATA, serviceVars, checkedQuestion >>
    /\ sessionPhase' = "none"

\* --------------------------------------------------------------- test mode
Question(word, options) ==
    [word |-> word, options |-> options, userAnswer |-> Undefined,
     spellingCorrect |-> "undefined", pronunciationCorrect |-> "undefined",
     answered |-> FALSE]

\* a slip: the wrong options drawn from all the words
EasyOptions_noFilter(word) ==
    UNION { Shuffles(<< word.cleanWord >> \o
                     [i \in 1..Len(slice(others, WrongOptionCount)) |->
                         others[i].cleanWord]) :
            others \in Shuffles(WORDS_DATA) }

\* generateEasyTest: the options a question for word can get
EasyOptions(word) ==
    UNION { Shuffles(<< word.cleanWord >> \o
                     [i \in 1..Len(slice(others, WrongOptionCount)) |->
                         others[i].cleanWord]) :
            others \in Shuffles(SelectSeq(WORDS_DATA,
                                  LAMBDA w : w.cleanWord # word.cleanWord)) }

NewTest(questions, mode, limit) ==
    /\ testsGenerated < limit
    /\ testQuestions' = questions
    /\ currentTestIndex' = 0
    /\ appMode' = mode
    /\ testsGenerated' = testsGenerated + 1
    /\ UNCHANGED << learningVars, feedback, inputVars, micVars, hintVars, testResult,
                    hardTestPhase, hardSpellingCorrect, localStorage,
                    finishedTests, timers >>
    /\ UNCHANGED << WORDS_DATA, serviceVars, sessionPhase, checkedQuestion >>

generateEasyTest(limit) ==
    \E shuffled \in Shuffles(WORDS_DATA) :
      LET selectedWords == slice(shuffled, EasyTestSize) IN
      \E options \in [1..Len(selectedWords) -> UNION { EasyOptions(w) : w \in Range(WORDS_DATA) }] :
        /\ \A i \in 1..Len(selectedWords) : options[i] \in EasyOptions(selectedWords[i])
        /\ NewTest([i \in 1..Len(selectedWords) |->
                       Question(selectedWords[i], options[i])], "test-easy", limit)

generateHardTest(limit) ==
    \E shuffled \in Shuffles(WORDS_DATA) :
      LET selectedWords == slice(shuffled, HardTestSize) IN
      NewTest([i \in 1..Len(selectedWords) |->
                  Question(selectedWords[i], << >>)], "test-hard", limit)

\* the options of a question for word when neither sort moves anything
UnmovedOptions(word) ==
    LET others == SelectSeq(WORDS_DATA, LAMBDA w : w.cleanWord # word.cleanWord) IN
    << word.cleanWord >> \o
    [i \in 1..Len(slice(others, WrongOptionCount)) |-> others[i].cleanWord]

\* generateEasyTest with the shuffles of the options of every question but
\* the first held to one outcome: what a test over a long repository is
\* explored with
generateEasyTestSample(limit) ==
    \E shuffled \in Shuffles(WORDS_DATA) :
      LET selectedWords == slice(shuffled, EasyTestSize)
          oneOutcome(i) == UnmovedOptions(selectedWords[i])
      IN IF selectedWords = << >>
         THEN NewTest(<< >>, "test-easy", limit)
         ELSE \E first \in EasyOptions(selectedWords[1]) :
                NewTest([i \in 1..Len(selectedWords) |->
                            Question(selectedWords[i],
                                     IF i = 1 THEN first ELSE oneOutcome(i))],
                        "test-easy", limit)

MenuEasyTestSample == appMode = "menu" /\ generateEasyTestSample(MaxTests + MaxRetries)

\* menu: Easy Test
MenuEasyTest(limit) == appMode = "menu" /\ generateEasyTest(limit)

\* menu: Hard Test
MenuHardTest(limit) == appMode = "menu" /\ generateHardTest(limit)

\* test results: Try Again
TryAgain ==
    /\ appMode = "test-results" /\ testResult # << >>
    /\ IF testResult[1].mode = "easy"
       THEN generateEasyTest(MaxTests + MaxRetries)
       ELSE generateHardTest(MaxTests + MaxRetries)

\* test results: Main Menu
ResultsMainMenu ==
    /\ appMode = "test-results" /\ testResult # << >>
    /\ appMode' = "menu"
    /\ UNCHANGED << learningVars, feedback, inputVars, micVars, hintVars, testVars, timers >>
    /\ UNCHANGED << WORDS_DATA, serviceVars, sessionPhase, checkedQuestion >>

\* a slip: > for >=
getGrade_exclusive(percentage) ==
    IF percentage > 90 THEN [grade |-> "A+", color |-> "text-green-400"]
    ELSE IF percentage > 80 THEN [grade |-> "A", color |-> "text-green-400"]
    ELSE IF percentage > 70 THEN [grade |-> "B", color |-> "text-blue-400"]
    ELSE IF percentage > 60 THEN [grade |-> "C", color |-> "text-yellow-400"]
    ELSE [grade |-> "D", color |-> "text-red-400"]

\* test results: the grade and its colour
getGrade(percentage) ==
    IF percentage >= 90 THEN [grade |-> "A+", color |-> "text-green-400"]
    ELSE IF percentage >= 80 THEN [grade |-> "A", color |-> "text-green-400"]
    ELSE IF percentage >= 70 THEN [grade |-> "B", color |-> "text-blue-400"]
    ELSE IF percentage >= 60 THEN [grade |-> "C", color |-> "text-yellow-400"]
    ELSE [grade |-> "D", color |-> "text-red-400"]

\* const gradeInfo = getGrade(testResult.percentage)
gradeInfo == getGrade(testResult[1].percentage)

\* ------------------------------------------------- Number (IEEE 754 double)
\* score / maxScore and its product with 100 are doubles.  A double that is
\* not 0 is kept as its significant bits, first bit 1, at most
\* SignificandBits of them, and the number frac of those that stand after
\* the binary point: its value is the bits read as an integer, over 2^frac.
Zero == [bits |-> << >>, frac |-> 0]

RECURSIVE BitsValue(_)
BitsValue(b) ==
    IF b = << >> THEN 0
    ELSE IF Len(b) = 1 THEN b[1]
    ELSE LET half == Len(b) \div 2 IN
         BitsValue(SubSeq(b, 1, half)) * 2^(Len(b) - half)
           + BitsValue(SubSeq(b, half + 1, Len(b)))

\* b without its leading zeros
StripZeros(b) ==
    IF \A i \in 1..Len(b) : b[i] = 0 THEN << >>
    ELSE SubSeq(b, CHOOSE i \in 1..Len(b) : b[i] = 1 /\ \A k \in 1..(i - 1) : b[k] = 0,
                Len(b))

Zeros(n) == [i \in 1..n |-> 0]

\* the n last bits of the integer v
ToBits(v, n) == [i \in 1..n |-> (v \div 2^(n - i)) % 2]

\* b + 1: the last 0 of b becomes 1 and the ones after it 0
Increment(b) ==
    IF \A i \in 1..Len(b) : b[i] = 1 THEN << 1 >> \o Zeros(Len(b))
    ELSE LET last == CHOOSE i \in 1..Len(b) :
                         b[i] = 0 /\ \A k \in (i + 1)..Len(b) : b[k] = 1
         IN [i \in 1..Len(b) |-> IF i < last THEN b[i] ELSE IF i = last THEN 1 ELSE 0]

\* b * 100, by the long multiplication of its three pieces of ChunkBits bits
Multiply100(b) ==
    LET padded == Zeros(3 * ChunkBits - Len(b)) \o b
        chunk(k) == BitsValue(SubSeq(padded, (k - 1) * ChunkBits + 1, k * ChunkBits))
        low == chunk(3) * 100
        mid == chunk(2) * 100 + low \div 2^ChunkBits
        high == chunk(1) * 100 + mid \div 2^ChunkBits
    IN StripZeros(ToBits(high, ChunkBits + 7) \o ToBits(mid % 2^ChunkBits, ChunkBits)
                    \o ToBits(low % 2^ChunkBits, ChunkBits))

\* roundTiesToEven, the rounding of every arithmetic operation: the exact
\* result is b over 2^frac, plus something less than one unit of b's last
\* place when sticky
Round(b, frac, sticky) ==
    IF Len(b) <= SignificandBits
    THEN [bits |-> b, frac |-> frac]
    ELSE LET kept == SubSeq(b, 1, SignificandBits)
             guard == b[SignificandBits + 1]
             rest == sticky \/ \E i \in (SignificandBits + 2)..Len(b) : b[i] = 1
             f == frac - (Len(b) - SignificandBits)
             up == Increment(kept)
         IN IF guard = 1 /\ (rest \/ kept[SignificandBits] = 1)
            THEN IF Len(up) > SignificandBits
                 THEN [bits |-> SubSeq(up, 1, SignificandBits), frac |-> f - 1]
                 ELSE [bits |-> up, frac |-> f]
            ELSE [bits |-> kept, frac |-> f]

\* 2^k modulo m for k below 4 * ChunkBits, by pieces that do not overflow
TwoToThe(k, m) ==
    LET piece == 2^ChunkBits % m
        pieces == CASE k \div ChunkBits = 0 -> 1 % m
                    [] k \div ChunkBits = 1 -> piece
                    [] k \div ChunkBits = 2 -> (piece * piece) % m
                    [] OTHER -> (((piece * piece) % m) * piece) % m
    IN (pieces * (2^(k % ChunkBits) % m)) % m

\* the long division of num by den, num < den: what remains after k bits of
\* the quotient, and the kth bit
Remainder(num, den, k) == (num * TwoToThe(k, den)) % den
QuotientBit(num, den, k) == (2 * Remainder(num, den, k - 1)) \div den

\* num / den for 0 <= num <= den, 0 < den (finishTest runs from the timer of
\* an answer to a question, so maxScore is not 0): the quotient from its
\* first 1 on, one bit more than a double keeps, rounded
Divide(num, den) ==
    IF num = 0 THEN Zero
    ELSE IF num = den THEN [bits |-> << 1 >>, frac |-> 0]
    ELSE LET first == CHOOSE k \in 1..den :
                          /\ QuotientBit(num, den, k) = 1
                          /\ \A j \in 1..(k - 1) : QuotientBit(num, den, j) = 0
             last == first + SignificandBits
         IN Round([i \in 1..(SignificandBits + 1) |->
                      QuotientBit(num, den, first + i - 1)],
                  last, Remainder(num, den, last) # 0)

\* x * 100
Times100(x) ==
    IF x = Zero THEN Zero
    ELSE Round(Multiply100(x.bits), x.frac, FALSE)

\* Math.round(x) for 0 <= x <= 100: floor(x + 0.5), the integer part of x and
\* one more when the first bit after the binary point is 1
MathRound(x) ==
    LET whole == Len(x.bits) - x.frac IN
    IF x = Zero \/ whole < 0 THEN 0
    ELSE BitsValue(SubSeq(x.bits, 1, whole))
           + (IF whole + 1 <= Len(x.bits) THEN x.bits[whole + 1] ELSE 0)

\* finishTest's loop over the questions: one point for each right answer,
\* in the hard test one for each right leg
score(mode, questions) ==
    LET Q == 1..Len(questions) IN
    IF mode = "easy"
    THEN Cardinality({ i \in Q : questions[i].userAnswer = questions[i].word.cleanWord })
    ELSE Cardinality({ i \in Q : questions[i].spellingCorrect = "true" })
         + Cardinality({ i \in Q : questions[i].pronunciationCorrect = "true" })

maxScore(mode, questions) ==
    IF mode = "easy" THEN Len(questions) ELSE Len(questions) * 2

\* Math.round((score / maxScore) * 100) for every score out of every maxScore
\* a test can have, computed once
Percentages ==
    [m \in 1..(2 * HardTestSize) |->
       [s \in 0..m |-> MathRound(Times100(Divide(s, m)))]]

\* new Date(): the instant of the call
Date(ms) == [type |-> "Date", ms |-> ms]
Instants == { Date(ms) : ms \in 0..MaxInstant }

StringValue(s) == [type |-> "string", value |-> s]

\* Date.prototype.toISOString
toISOString(date) == << "1970-01-01T00:00:00.", ToString(date.ms), "Z" >>

TestResult(mode, questions, now) ==
    [mode |-> mode, questions |-> questions,
     score |-> score(mode, questions),
     maxScore |-> maxScore(mode, questions),
     percentage |-> Percentages[maxScore(mode, questions)][score(mode, questions)],
     completedAt |-> now]

\* ---- JSON: an object is written with the keys whose value is not
\* undefined, a Date as the string its toJSON returns; what is read back is
\* an object with the keys written
QuestionKeys ==
    { "word", "options", "userAnswer", "spellingCorrect", "pronunciationCorrect",
      "answered" }
OptionalKeys == { "options", "userAnswer", "spellingCorrect", "pronunciationCorrect" }

\* what reading a key the question does not have gives
AbsentValue(key) ==
    CASE key = "options" -> << >>
      [] key = "userAnswer" -> Undefined
      [] OTHER -> "undefined"

OwnKeys(q) == { k \in QuestionKeys : k \notin OptionalKeys \/ q[k] # AbsentValue(k) }

\* a slip: the Date written as it is
toJSON_identity(v) == v

\* Date.prototype.toJSON, by which JSON.stringify replaces a Date
toJSON(v) == IF v.type = "Date" THEN StringValue(toISOString(v)) ELSE v

stringifyQuestion(q) == [k \in OwnKeys(q) |-> q[k]]

parseQuestion(text) ==
    [k \in QuestionKeys |-> IF k \in DOMAIN text THEN text[k] ELSE AbsentValue(k)]

stringifyResult(r) ==
    [mode |-> r.mode,
     questions |-> [i \in 1..Len(r.questions) |-> stringifyQuestion(r.questions[i])],
     score |-> r.score, maxScore |-> r.maxScore, percentage |-> r.percentage,
     completedAt |-> toJSON(r.completedAt)]

parseResult(text) ==
    [mode |-> text.mode,
     questions |-> [i \in 1..Len(text.questions) |-> parseQuestion(text.questions[i])],
     score |-> text.score, maxScore |-> text.maxScore, percentage |-> text.percentage,
     completedAt |-> text.completedAt]

JSONstringify(results) == [i \in 1..Len(results) |-> stringifyResult(results[i])]
JSONparse(text) == [i \in 1..Len(text) |-> parseResult(text[i])]

\* localStorage.getItem(...) ? JSON.parse(...) : []
savedResults == IF localStorage = << >> THEN << >> ELSE JSONparse(localStorage[1])

finishTest(mode, questions) ==
    \E now \in Instants :
      /\ testResult' = << TestResult(mode, questions, now) >>
      /\ appMode' = "test-results"
      /\ localStorage' =
           << JSONstringify(Append(savedResults, TestResult(mode, questions, now))) >>

\* every string an option button can carry
Options == { WORDS_DATA[i].cleanWord : i \in 1..Len(WORDS_DATA) }

\* easy test: one of the option buttons of the current question
handleEasyTestAnswer(selectedWord) ==
    /\ appMode = "test-easy" /\ HasCurrentQuestion
    /\ selectedWord \in Range(currentQuestion.options)
    /\ CanScheduleTest
    /\ LET isCorrect == selectedWord = currentQuestion.word.cleanWord
           updatedQuestions ==
               [testQuestions EXCEPT ![currentTestIndex + 1] =
                   [currentQuestion EXCEPT !.userAnswer = selectedWord,
                                           !.answered = TRUE]]
       IN /\ testQuestions' = updatedQuestions
          /\ feedback' = (IF isCorrect THEN "correct" ELSE "incorrect")
          /\ timers' = Append(timers, Timer("easy", isCorrect, currentTestIndex,
                                            Len(testQuestions), updatedQuestions,
                                            testsGenerated))
    /\ UNCHANGED << appMode, learningVars, inputVars, micVars, hintVars, currentTestIndex,
                    testResult, hardTestPhase, hardSpellingCorrect, localStorage,
                    testsGenerated, finishedTests >>
    /\ UNCHANGED << WORDS_DATA, serviceVars, sessionPhase, checkedQuestion >>

\* a slip: the last question compared with length instead of length - 1
easyTestTimeout_offByOne(t) ==
    /\ feedback' = "null"
    /\ IF t.idx < t.len
       THEN /\ currentTestIndex' = currentTestIndex + 1
            /\ UNCHANGED << appMode, testResult, localStorage, finishedTests >>
       ELSE /\ finishTest("easy", t.questions)
            /\ finishedTests' = finishedTests \cup { t.test }
            /\ UNCHANGED currentTestIndex
    /\ UNCHANGED inputVars

\* a slip: the callback does nothing when its test is no longer the one shown
easyTestTimeout_guarded(t) ==
    IF appMode = "test-easy" /\ t.test = testsGenerated
    THEN /\ feedback' = "null"
         /\ IF t.idx < t.len - 1
            THEN /\ currentTestIndex' = currentTestIndex + 1
                 /\ UNCHANGED << appMode, testResult, localStorage, finishedTests >>
            ELSE /\ finishTest("easy", t.questions)
                 /\ finishedTests' = finishedTests \cup { t.test }
                 /\ UNCHANGED currentTestIndex
         /\ UNCHANGED inputVars
    ELSE UNCHANGED << feedback, currentTestIndex, appMode, testResult, localStorage,
                      finishedTests, inputVars >>

\* the callback handleEasyTestAnswer hands to setTimeout
easyTestTimeout(t) ==
    /\ feedback' = "null"
    /\ IF t.idx < t.len - 1
       THEN /\ currentTestIndex' = currentTestIndex + 1
            /\ UNCHANGED << appMode, testResult, localStorage, finishedTests >>
       ELSE /\ finishTest("easy", t.questions)
            /\ finishedTests' = finishedTests \cup { t.test }
            /\ UNCHANGED currentTestIndex
    /\ UNCHANGED inputVars

\* easy test: Back to Menu
BackToMenu ==
    /\ appMode = "test-easy" /\ HasCurrentQuestion
    /\ appMode' = "menu"
    /\ UNCHANGED << learningVars, feedback, inputVars, micVars, hintVars, testVars, timers >>
    /\ UNCHANGED << WORDS_DATA, serviceVars, sessionPhase, checkedQuestion >>

Bool(b) == IF b THEN "true" ELSE "false"

\* hard test, spelling leg: Check Spelling
handleHardSpellingCheck ==
    /\ appMode = "test-hard" /\ HasCurrentQuestion /\ hardTestPhase = "spelling"
    /\ CanScheduleHard
    /\ LET isCorrect == MatchesCleanWord(inputValue, currentQuestion.word) IN
       /\ hardSpellingCorrect' = isCorrect
       /\ checkedQuestion' = << testsGenerated, currentTestIndex >>
       /\ feedback' = (IF isCorrect THEN "correct" ELSE "incorrect")
       /\ timers' = Append(timers, Timer("hardSpelling", isCorrect, currentTestIndex,
                                         Len(testQuestions), << >>, testsGenerated))
    /\ UNCHANGED << appMode, learningVars, inputVars, micVars, hintVars, testQuestions,
                    currentTestIndex, testResult, hardTestPhase, localStorage,
                    testsGenerated, finishedTests >>
    /\ UNCHANGED << WORDS_DATA, serviceVars, sessionPhase >>

\* the callback handleHardSpellingCheck hands to setTimeout
hardSpellingTimeout(t) ==
    /\ feedback' = "null"
    /\ hardTestPhase' = "pronunciation"

\* handleHardTestSubmit, the part that runs at once
handleHardTestSubmit(spellingCorrect, pronunciationCorrect) ==
    LET updatedQuestions ==
            [testQuestions EXCEPT ![currentTestIndex + 1] =
                [currentQuestion EXCEPT !.spellingCorrect = Bool(spellingCorrect),
                                        !.pronunciationCorrect = Bool(pronunciationCorrect),
                                        !.answered = TRUE]]
    IN /\ testQuestions' = updatedQuestions
       /\ feedback' = (IF spellingCorrect /\ pronunciationCorrect
                       THEN "correct" ELSE "incorrect")
       /\ timers' = Append(timers, Timer("hard", spellingCorrect /\ pronunciationCorrect,
                                         currentTestIndex, Len(testQuestions),
                                         updatedQuestions, testsGenerated))

\* the callback handleHardTestSubmit hands to setTimeout
hardTestTimeout(t) ==
    /\ feedback' = "null"
    /\ inputValue' = EmptyString
    /\ transcript' = EmptyString
    /\ UNCHANGED hint
    /\ IF t.idx < t.len - 1
       THEN /\ currentTestIndex' = currentTestIndex + 1
            /\ UNCHANGED << appMode, testResult, localStorage, finishedTests >>
       ELSE /\ finishTest("hard", t.questions)
            /\ finishedTests' = finishedTests \cup { t.test }
            /\ UNCHANGED currentTestIndex

\* hard test, pronunciation leg: Next Question, rendered when transcript is
\* not empty
handlePronunciationNext ==
    /\ appMode = "test-hard" /\ HasCurrentQuestion /\ hardTestPhase = "pronunciation"
    /\ transcript # EmptyString
    /\ CanScheduleHard
    /\ handleHardTestSubmit(hardSpellingCorrect,
                            MatchesCleanWord(transcript, currentQuestion.word))
    /\ hardTestPhase' = "spelling"
    /\ inputValue' = EmptyString
    /\ transcript' = EmptyString
    /\ UNCHANGED << hint, appMode, learningVars, micVars, hintVars, currentTestIndex, testResult,
                    hardSpellingCorrect, localStorage, testsGenerated, finishedTests >>
    /\ UNCHANGED << WORDS_DATA, serviceVars, sessionPhase, checkedQuestion >>

\* hard test: Exit Test
ExitTest ==
    /\ appMode = "test-hard" /\ HasCurrentQuestion
    /\ appMode' = "menu"
    /\ hardTestPhase' = "spelling"
    /\ UNCHANGED << learningVars, feedback, inputVars, micVars, hintVars, testQuestions,
                    currentTestIndex, testResult, hardSpellingCorrect, localStorage,
                    testsGenerated, finishedTests, timers >>
    /\ UNCHANGED << WORDS_DATA, serviceVars, sessionPhase, checkedQuestion >>

\* ------------------------------------------------------------------ timers
\* the oldest pending setTimeout callback runs
FireLearnTimer ==
    /\ timers # << >> /\ Head(timers).kind = "learn"
    /\ showFeedbackTimeout(Head(timers))
    /\ timers' = Tail(timers)
    /\ UNCHANGED << appMode, words, micVars, hintVars, testVars >>
    /\ UNCHANGED << WORDS_DATA, serviceVars, sessionPhase, checkedQuestion >>

FireEasyTimer ==
    /\ timers # << >> /\ Head(timers).kind = "easy"
    /\ easyTestTimeout(Head(timers))
    /\ timers' = Tail(timers)
    /\ UNCHANGED << learningVars, micVars, hintVars, testQuestions, hardTestPhase,
                    hardSpellingCorrect, testsGenerated >>
    /\ UNCHANGED << WORDS_DATA, serviceVars, sessionPhase, checkedQuestion >>

FireHardSpellingTimer ==
    /\ timers # << >> /\ Head(timers).kind = "hardSpelling"
    /\ hardSpellingTimeout(Head(timers))
    /\ timers' = Tail(timers)
    /\ UNCHANGED << appMode, learningVars, inputVars, micVars, hintVars, testQuestions,
                    currentTestIndex, testResult, hardSpellingCorrect, localStorage,
                    testsGenerated, finishedTests >>
    /\ UNCHANGED << WORDS_DATA, serviceVars, sessionPhase, checkedQuestion >>

FireHardTimer ==
    /\ timers # << >> /\ Head(timers).kind = "hard"
    /\ hardTestTimeout(Head(timers))
    /\ timers' = Tail(timers)
    /\ UNCHANGED << learningVars, micVars, hintVars, testQuestions, hardTestPhase,
                    hardSpellingCorrect, testsGenerated >>
    /\ UNCHANGED << WORDS_DATA, serviceVars, sessionPhase, checkedQuestion >>

\* ---------------------------------------------------------------- ttsService
\* what speak is called with
Texts == { WORDS_DATA[i].cleanWord : i \in 1..Len(WORDS_DATA) }

appVars == << appMode, learningVars, feedback, inputVars, hintVars, micVars, testVars,
              timers, sessionPhase, checkedQuestion >>

\* audioCache[text] is set
IsCached(text) == \E e \in audioCache : e.text = text
CachedURLs == { e.url : e \in audioCache }

\* a call of speakWithGoogleTTS: where it stands (awaiting fetch, awaiting
\* response.json(), its play() promise pending, done), whether its promise
\* has resolved, and what it has done so far; of its fallback: whether the
\* 'voiceschanged' listener and the 500 ms timeout are armed, the 100 ms
\* timeouts pending, and the speechSynthesis.speak calls made
SpeakCall(text, pc, settled, fetches, outcome) ==
    [text |-> text, pc |-> pc, settled |-> settled, fetches |-> fetches,
     fallbacks |-> 0, outcome |-> outcome,
     listener |-> FALSE, timeout |-> FALSE, utterances |-> 0, spoken |-> 0]

\* a slip: the fallback left out
fallbackToWebSpeech_skipped(call) == call

\* the closure speak of fallbackToWebSpeech: the utterance is built and its
\* speechSynthesis.speak is put behind a 100 ms timeout
speakUtterance(call) == [call EXCEPT !.utterances = @ + 1]

\* with no voice listed yet, speak is registered for 'voiceschanged' and
\* given to setTimeout(speak, 500), both; otherwise it runs at once
fallbackToWebSpeech(call) ==
    IF voicesLoaded
    THEN speakUtterance([call EXCEPT !.fallbacks = @ + 1])
    ELSE [call EXCEPT !.fallbacks = @ + 1, !.listener = TRUE, !.timeout = TRUE]

\* the catch block of speakWithGoogleTTS
catchError(call) ==
    fallbackToWebSpeech([call EXCEPT !.pc = "done", !.settled = "resolved",
                                     !.outcome = "failed"])

\* playPromise.catch(...)
playFailed(call) == fallbackToWebSpeech([call EXCEPT !.pc = "done"])

\* the part of speakWithGoogleTTS that runs at once: the cached audio is
\* played, or the request is sent
speakWithGoogleTTS(text) ==
    /\ Len(speakCalls) < MaxSpeakCalls
    /\ speakCalls' =
         Append(speakCalls,
                IF IsCached(text)
                THEN SpeakCall(text, "play", "resolved", 0, "cached")
                ELSE SpeakCall(text, "fetch", "pending", 1, "none"))
    /\ UNCHANGED << audioCache, objectURLs, revokedURLs, cleanups, voicesLoaded >>
    /\ UNCHANGED << WORDS_DATA, appVars, VITE_GEMINI_API_KEY, sentenceCalls >>

\* const GOOGLE_TTS_API_KEY = import.meta.env.VITE_GEMINI_API_KEY
GOOGLE_TTS_API_KEY == VITE_GEMINI_API_KEY

\* await fetch(...) returns a response (ok: a 2xx status, which the endpoint
\* gives to no request with key=undefined)
fetchResolves(i, ok) ==
    /\ speakCalls[i].pc = "fetch"
    /\ ok => GOOGLE_TTS_API_KEY # "undefined"
    /\ speakCalls' = [speakCalls EXCEPT ![i] =
                         IF ok THEN [@ EXCEPT !.pc = "json"] ELSE catchError(@)]
    /\ UNCHANGED << audioCache, objectURLs, revokedURLs, cleanups, voicesLoaded >>
    /\ UNCHANGED << WORDS_DATA, appVars, VITE_GEMINI_API_KEY, sentenceCalls >>

\* await fetch(...) throws (transport error)
fetchRejects(i) ==
    /\ speakCalls[i].pc = "fetch"
    /\ speakCalls' = [speakCalls EXCEPT ![i] = catchError(@)]
    /\ UNCHANGED << audioCache, objectURLs, revokedURLs, cleanups, voicesLoaded >>
    /\ UNCHANGED << WORDS_DATA, appVars, VITE_GEMINI_API_KEY, sentenceCalls >>

\* what data.audioContent can be: base64 audio, a string atob rejects, absent
AudioContents == { "base64", "invalid", "undefined" }

\* await response.json() returns the body
jsonResolves(i, audioContent) ==
    /\ speakCalls[i].pc = "json"
    /\ CASE audioContent = "base64" ->
              /\ objectURLs' = objectURLs + 1
              /\ audioCache' = { e \in audioCache : e.text # speakCalls[i].text }
                                 \cup { [text |-> speakCalls[i].text, url |-> objectURLs'] }
              /\ speakCalls' = [speakCalls EXCEPT ![i] =
                                   [@ EXCEPT !.pc = "play", !.settled = "resolved",
                                             !.outcome = "synthesized"]]
         [] audioContent = "invalid" ->
              /\ speakCalls' = [speakCalls EXCEPT ![i] = catchError(@)]
              /\ UNCHANGED << audioCache, objectURLs >>
         [] OTHER ->
              /\ speakCalls' = [speakCalls EXCEPT ![i] =
                                   [@ EXCEPT !.pc = "done", !.settled = "resolved",
                                             !.outcome = "noAudio"]]
              /\ UNCHANGED << audioCache, objectURLs >>
    /\ UNCHANGED << revokedURLs, cleanups, voicesLoaded >>
    /\ UNCHANGED << WORDS_DATA, appVars, VITE_GEMINI_API_KEY, sentenceCalls >>

\* await response.json() throws (the body is not JSON)
jsonRejects(i) ==
    /\ speakCalls[i].pc = "json"
    /\ speakCalls' = [speakCalls EXCEPT ![i] = catchError(@)]
    /\ UNCHANGED << audioCache, objectURLs, revokedURLs, cleanups, voicesLoaded >>
    /\ UNCHANGED << WORDS_DATA, appVars, VITE_GEMINI_API_KEY, sentenceCalls >>

\* the promise of audio.play() resolves
playResolves(i) ==
    /\ speakCalls[i].pc = "play"
    /\ speakCalls' = [speakCalls EXCEPT ![i] = [@ EXCEPT !.pc = "done"]]
    /\ UNCHANGED << audioCache, objectURLs, revokedURLs, cleanups, voicesLoaded >>
    /\ UNCHANGED << WORDS_DATA, appVars, VITE_GEMINI_API_KEY, sentenceCalls >>

\* the promise of audio.play() rejects
playRejects(i) ==
    /\ speakCalls[i].pc = "play"
    /\ speakCalls' = [speakCalls EXCEPT ![i] = playFailed(@)]
    /\ UNCHANGED << audioCache, objectURLs, revokedURLs, cleanups, voicesLoaded >>
    /\ UNCHANGED << WORDS_DATA, appVars, VITE_GEMINI_API_KEY, sentenceCalls >>

\* the browser's 'voiceschanged' event: the voices are listed, and every
\* listener registered { once: true } runs and is removed
voiceschanged ==
    /\ ~voicesLoaded
    /\ voicesLoaded' = TRUE
    /\ speakCalls' =
         [i \in 1..Len(speakCalls) |->
            IF speakCalls[i].listener
            THEN speakUtterance([speakCalls[i] EXCEPT !.listener = FALSE])
            ELSE speakCalls[i]]
    /\ UNCHANGED << audioCache, objectURLs, revokedURLs, cleanups >>
    /\ UNCHANGED << WORDS_DATA, appVars, VITE_GEMINI_API_KEY, sentenceCalls >>

\* setTimeout(speak, 500) of call i's fallback elapses
speakTimeout(i) ==
    /\ speakCalls[i].timeout
    /\ speakCalls' = [speakCalls EXCEPT ![i] =
                         speakUtterance([@ EXCEPT !.timeout = FALSE])]
    /\ UNCHANGED << audioCache, objectURLs, revokedURLs, cleanups, voicesLoaded >>
    /\ UNCHANGED << WORDS_DATA, appVars, VITE_GEMINI_API_KEY, sentenceCalls >>

\* a 100 ms timeout of call i's fallback elapses: speechSynthesis.speak(utterance)
utteranceTimeout(i) ==
    /\ speakCalls[i].utterances > 0
    /\ speakCalls' = [speakCalls EXCEPT ![i] =
                         [@ EXCEPT !.utterances = @ - 1, !.spoken = @ + 1]]
    /\ UNCHANGED << audioCache, objectURLs, revokedURLs, cleanups, voicesLoaded >>
    /\ UNCHANGED << WORDS_DATA, appVars, VITE_GEMINI_API_KEY, sentenceCalls >>

\* a slip: the URLs revoked, the entries kept
cleanupAudioCache_keepsEntries ==
    /\ cleanups < MaxCleanups
    /\ revokedURLs' = revokedURLs \cup CachedURLs
    /\ cleanups' = cleanups + 1
    /\ UNCHANGED << audioCache, objectURLs, speakCalls, voicesLoaded >>
    /\ UNCHANGED << WORDS_DATA, appVars, VITE_GEMINI_API_KEY, sentenceCalls >>

cleanupAudioCache ==
    /\ cleanups < MaxCleanups
    /\ revokedURLs' = revokedURLs \cup CachedURLs
    /\ audioCache' = {}
    /\ cleanups' = cleanups + 1
    /\ UNCHANGED << objectURLs, speakCalls, voicesLoaded >>
    /\ UNCHANGED << WORDS_DATA, appVars, VITE_GEMINI_API_KEY, sentenceCalls >>

\* ------------------------------------------------------------ geminiService
\* const GEMINI_API_KEY = import.meta.env.VITE_GEMINI_API_KEY || ''
GEMINI_API_KEY == IF VITE_GEMINI_API_KEY = "undefined" THEN "" ELSE VITE_GEMINI_API_KEY

ApiKeyString ==
    << "API Key not configured. Please set VITE_GEMINI_API_KEY environment variable." >>

\* the texts a candidate can carry
CandidateTexts ==
    { << "h", "i" >>, << " ", "h", "i", " " >>, << " ", " ", "a", " ", "b" >>, << " " >> }

\* a candidate: with content.parts[0].text, or without content
Candidate(hasContent, text) == [hasContent |-> hasContent, text |-> text]
Candidates ==
    { Candidate(TRUE, t) : t \in CandidateTexts } \cup { Candidate(FALSE, << >>) }

\* the bodies response.json() can give: without candidates, with an empty
\* list, with one candidate or two
Bodies ==
    { [hasCandidates |-> FALSE, candidates |-> << >>],
      [hasCandidates |-> TRUE, candidates |-> << >>] }
      \cup { [hasCandidates |-> TRUE, candidates |-> << c >>] : c \in Candidates }
      \cup { [hasCandidates |-> TRUE,
              candidates |-> << c, Candidate(TRUE, << "n", "o" >>) >>] :
              c \in Candidates }

\* a call of getExampleSentence: where it stands (awaiting fetch, awaiting
\* response.json(), done), how its promise has settled and with what, the
\* requests it has sent and the body it was given
SentenceCall(word, pc, settled, fetches, result) ==
    [word |-> word, pc |-> pc, settled |-> settled, fetches |-> fetches,
     result |-> result, failed |-> FALSE, body |-> [hasCandidates |-> FALSE,
                                                    candidates |-> << >>]]

Returns(call, string) ==
    [call EXCEPT !.pc = "done", !.settled = "resolved", !.result = string]

\* a slip: the error thrown on
catchSentenceError_rethrows(call) ==
    [call EXCEPT !.pc = "done", !.settled = "rejected", !.failed = TRUE]

\* the catch block of getExampleSentence
catchSentenceError(call) == [Returns(call, SorryString) EXCEPT !.failed = TRUE]

\* the part of getExampleSentence that runs at once: without key the error
\* string is returned, with a key the request is sent
getExampleSentence(word) ==
    /\ Len(sentenceCalls) < MaxSentenceCalls
    /\ sentenceCalls' =
         Append(sentenceCalls,
                IF GEMINI_API_KEY = ""
                THEN SentenceCall(word, "done", "resolved", 0, ApiKeyString)
                ELSE SentenceCall(word, "fetch", "pending", 1, EmptyString))
    /\ UNCHANGED << WORDS_DATA, appVars, ttsVars, VITE_GEMINI_API_KEY >>

\* await fetch(...) returns a response (ok: a 2xx status)
sentenceFetchResolves(i, ok) ==
    /\ sentenceCalls[i].pc = "fetch"
    /\ sentenceCalls' = [sentenceCalls EXCEPT ![i] =
                            IF ok THEN [@ EXCEPT !.pc = "json"]
                            ELSE catchSentenceError(@)]
    /\ UNCHANGED << WORDS_DATA, appVars, ttsVars, VITE_GEMINI_API_KEY >>

\* await fetch(...) throws (transport error)
sentenceFetchRejects(i) ==
    /\ sentenceCalls[i].pc = "fetch"
    /\ sentenceCalls' = [sentenceCalls EXCEPT ![i] = catchSentenceError(@)]
    /\ UNCHANGED << WORDS_DATA, appVars, ttsVars, VITE_GEMINI_API_KEY >>

\* await response.json() returns the body; candidates[0].content.parts of a
\* candidate without content throws a TypeError
sentenceJsonResolves(i, data) ==
    /\ sentenceCalls[i].pc = "json"
    /\ sentenceCalls' =
         [sentenceCalls EXCEPT ![i] =
            LET given == [@ EXCEPT !.body = data] IN
            IF data.hasCandidates /\ Len(data.candidates) > 0
            THEN IF data.candidates[1].hasContent
                 THEN Returns(given, trim(data.candidates[1].text))
                 ELSE catchSentenceError(given)
            ELSE Returns(given, SorryString)]
    /\ UNCHANGED << WORDS_DATA, appVars, ttsVars, VITE_GEMINI_API_KEY >>

\* await response.json() throws (the body is not JSON)
sentenceJsonRejects(i) ==
    /\ sentenceCalls[i].pc = "json"
    /\ sentenceCalls' = [sentenceCalls EXCEPT ![i] = catchSentenceError(@)]
    /\ UNCHANGED << WORDS_DATA, appVars, ttsVars, VITE_GEMINI_API_KEY >>

\* ----------------------------------------------------------- specification
Next ==
    \/ startLearning
    \/ ClickStartLearning
    \/ handleStartMicCheck
    \/ ClickContinue
    \/ ClickReady
    \/ \E v \in Inputs : SetInputValue(v)
    \/ handleSpellingSubmit
    \/ StartOver
    \/ CompletedMainMenu
    \/ handleGetHint
    \/ \E i \in 1..MaxHintRequests, ok \in BOOLEAN : HintResolves(i, ok)
    \/ startListening
    \/ onstart
    \/ \E result \in Transcripts : onresult(result)
    \/ onerror
    \/ onend
    \/ MenuEasyTest(MaxTests)
    \/ MenuHardTest(MaxTests)
    \/ TryAgain
    \/ ResultsMainMenu
    \/ \E selectedWord \in Options : handleEasyTestAnswer(selectedWord)
    \/ BackToMenu
    \/ handleHardSpellingCheck
    \/ handlePronunciationNext
    \/ ExitTest
    \/ FireLearnTimer
    \/ FireEasyTimer
    \/ FireHardSpellingTimer
    \/ FireHardTimer

Spec == Init /\ [][Next]_vars

\* the learning session alone: the menu's Learning Mode and what follows
NextLearn ==
    \/ startLearning
    \/ ClickStartLearning
    \/ handleStartMicCheck
    \/ ClickContinue
    \/ ClickReady
    \/ \E v \in Inputs : SetInputValue(v)
    \/ handleSpellingSubmit
    \/ StartOver
    \/ CompletedMainMenu
    \/ handleGetHint
    \/ \E i \in 1..MaxHintRequests, ok \in BOOLEAN : HintResolves(i, ok)
    \/ startListening
    \/ onstart
    \/ \E result \in Transcripts : onresult(result)
    \/ onerror
    \/ onend
    \/ FireLearnTimer

SpecLearn == Init /\ [][NextLearn]_vars

\* the learning session with its timers: a callback given to setTimeout runs
\* once its delay has passed
SpecLearnFair == SpecLearn /\ WF_vars(FireLearnTimer)

\* one test, easy or hard, started from the menu
NextTest ==
    \/ MenuEasyTest(MaxTests)
    \/ MenuHardTest(MaxTests)
    \/ ResultsMainMenu
    \/ \E selectedWord \in Options : handleEasyTestAnswer(selectedWord)
    \/ BackToMenu
    \/ \E v \in Inputs : SetInputValue(v)
    \/ handleHardSpellingCheck
    \/ startListening
    \/ onstart
    \/ \E result \in Transcripts : onresult(result)
    \/ onerror
    \/ onend
    \/ handlePronunciationNext
    \/ ExitTest
    \/ FireEasyTimer
    \/ FireHardSpellingTimer
    \/ FireHardTimer

SpecTest == Init /\ [][NextTest]_vars

\* the tests with their timers
SpecTestFair ==
    /\ SpecTest
    /\ WF_vars(FireEasyTimer) /\ WF_vars(FireHardSpellingTimer) /\ WF_vars(FireHardTimer)

\* easy tests alone, Try Again included
NextEasy ==
    \/ MenuEasyTest(MaxTests + MaxRetries)
    \/ TryAgain
    \/ ResultsMainMenu
    \/ \E selectedWord \in Options : handleEasyTestAnswer(selectedWord)
    \/ BackToMenu
    \/ FireEasyTimer

SpecEasy == Init /\ [][NextEasy]_vars

\* hard tests alone
NextHard ==
    \/ MenuHardTest(MaxTests + MaxRetries)
    \/ TryAgain
    \/ ResultsMainMenu
    \/ \E v \in Inputs : SetInputValue(v)
    \/ handleHardSpellingCheck
    \/ startListening
    \/ onstart
    \/ \E result \in Transcripts : onresult(result)
    \/ onerror
    \/ onend
    \/ handlePronunciationNext
    \/ ExitTest
    \/ FireHardSpellingTimer
    \/ FireHardTimer

SpecHard == Init /\ [][NextHard]_vars

\* the generation of a test over each of Repositories
NextGenerate ==
    \/ MenuEasyTestSample
    \/ MenuHardTest(MaxTests + MaxRetries)

SpecGenerate == InitGenerate /\ [][NextGenerate]_vars

\* scoring as a function of the answers: the test over data (taken in the
\* order of data, the options unmoved) after the handler of its last question
\* ran, the right answers of each kind being the first ones
AtLastAnswer(data, mode, right, rightSpoken) ==
    LET n == Len(slice(data, IF mode = "easy" THEN EasyTestSize ELSE HardTestSize))
        wrongOption(i) ==
            CHOOSE o \in Range(UnmovedOptions(data[i])) : o # data[i].cleanWord
        questions ==
            [i \in 1..n |->
               IF mode = "easy"
               THEN [word |-> data[i], options |-> UnmovedOptions(data[i]),
                     userAnswer |-> IF i <= right THEN data[i].cleanWord
                                    ELSE wrongOption(i),
                     spellingCorrect |-> "undefined",
                     pronunciationCorrect |-> "undefined", answered |-> TRUE]
               ELSE [word |-> data[i], options |-> << >>, userAnswer |-> Undefined,
                     spellingCorrect |-> Bool(i <= right),
                     pronunciationCorrect |-> Bool(i <= rightSpoken),
                     answered |-> TRUE]]
        isCorrect == n <= right /\ (mode = "easy" \/ n <= rightSpoken)
    IN /\ WORDS_DATA = data
       /\ appMode = (IF mode = "easy" THEN "test-easy" ELSE "test-hard")
       /\ words = data
       /\ currentWordIndex = 0
       /\ phase = "welcome"
       /\ feedback = (IF isCorrect THEN "correct" ELSE "incorrect")
       /\ inputValue = EmptyString
       /\ isListening = FALSE
       /\ transcript = EmptyString
       /\ hint = EmptyString
       /\ isHintLoading = FALSE
       /\ hintRequests = << >>
       /\ micCheckStatus = "idle"
       /\ micError = "null"
       /\ testQuestions = questions
       /\ currentTestIndex = n - 1
       /\ testResult = << >>
       /\ hardTestPhase = "spelling"
       /\ hardSpellingCorrect = (mode = "hard" /\ n <= right)
       /\ localStorage = << >>
       /\ timers = << Timer(mode, isCorrect, n - 1, n, questions, 1) >>
       /\ recognition = "idle"
       /\ sessionPhase = "none"
       /\ checkedQuestion = << >>
       /\ heardThisVisit = FALSE
       /\ testsGenerated = 1
       /\ finishedTests = {}
       /\ ServiceLoaded

\* a wrong option needs a second word
InitScore ==
    \E data \in { d \in Repositories : Len(d) >= 2 } :
      \/ \E right \in 0..Len(slice(data, EasyTestSize)) :
            AtLastAnswer(data, "easy", right, 0)
      \/ \E right, rightSpoken \in 0..Len(slice(data, HardTestSize)) :
            AtLastAnswer(data, "hard", right, rightSpoken)

NextScore ==
    \/ FireEasyTimer
    \/ FireHardTimer
    \/ ResultsMainMenu

SpecScore == InitScore /\ [][NextScore]_vars

\* the speech output adapter on its own
NextSpeech ==
    \/ \E text \in Texts : speakWithGoogleTTS(text)
    \/ \E i \in 1..Len(speakCalls), ok \in BOOLEAN : fetchResolves(i, ok)
    \/ \E i \in 1..Len(speakCalls) : fetchRejects(i)
    \/ \E i \in 1..Len(speakCalls), audioContent \in AudioContents :
         jsonResolves(i, audioContent)
    \/ \E i \in 1..Len(speakCalls) : jsonRejects(i)
    \/ \E i \in 1..Len(speakCalls) : playResolves(i)
    \/ \E i \in 1..Len(speakCalls) : playRejects(i)
    \/ cleanupAudioCache

SpecSpeech == InitServices /\ [][NextSpeech]_vars

\* the speech output adapter with the browser's speech synthesis behind its
\* fallback
NextFallback ==
    \/ \E text \in Texts : speakWithGoogleTTS(text)
    \/ \E i \in 1..Len(speakCalls), ok \in BOOLEAN : fetchResolves(i, ok)
    \/ \E i \in 1..Len(speakCalls) : fetchRejects(i)
    \/ \E i \in 1..Len(speakCalls), audioContent \in AudioContents :
         jsonResolves(i, audioContent)
    \/ \E i \in 1..Len(speakCalls) : jsonRejects(i)
    \/ \E i \in 1..Len(speakCalls) : playResolves(i)
    \/ \E i \in 1..Len(speakCalls) : playRejects(i)
    \/ voiceschanged
    \/ \E i \in 1..Len(speakCalls) : speakTimeout(i)
    \/ \E i \in 1..Len(speakCalls) : utteranceTimeout(i)

SpecFallback == InitServices /\ [][NextFallback]_vars

\* the hint generator client on its own
NextSentence ==
    \/ \E word \in Texts : getExampleSentence(word)
    \/ \E i \in 1..Len(sentenceCalls), ok \in BOOLEAN : sentenceFetchResolves(i, ok)
    \/ \E i \in 1..Len(sentenceCalls) : sentenceFetchRejects(i)
    \/ \E i \in 1..Len(sentenceCalls), data \in Bodies : sentenceJsonResolves(i, data)
    \/ \E i \in 1..Len(sentenceCalls) : sentenceJsonRejects(i)

SpecSentence == InitServices /\ [][NextSentence]_vars

\* learning and tests together over a repository of one word, the hints left
\* out
InitModes == Mounted(Repository(1), Repository(1))

NextModes ==
    \/ startLearning
    \/ ClickStartLearning
    \/ handleStartMicCheck
    \/ ClickContinue
    \/ ClickReady
    \/ \E v \in Inputs : SetInputValue(v)
    \/ handleSpellingSubmit
    \/ StartOver
    \/ CompletedMainMenu
    \/ startListening
    \/ onstart
    \/ \E result \in Transcripts : onresult(result)
    \/ onerror
    \/ onend
    \/ MenuEasyTest(MaxTests)
    \/ MenuHardTest(MaxTests)
    \/ TryAgain
    \/ ResultsMainMenu
    \/ \E selectedWord \in Options : handleEasyTestAnswer(selectedWord)
    \/ BackToMenu
    \/ handleHardSpellingCheck
    \/ handlePronunciationNext
    \/ ExitTest
    \/ FireLearnTimer
    \/ FireEasyTimer
    \/ FireHardSpellingTimer
    \/ FireHardTimer

SpecModes == InitModes /\ [][NextModes]_vars

\* learning and tests together with their timers: a callback given to
\* setTimeout runs once its delay has passed
SpecModesFair ==
    /\ SpecModes
    /\ WF_vars(FireLearnTimer) /\ WF_vars(FireEasyTimer)
    /\ WF_vars(FireHardSpellingTimer) /\ WF_vars(FireHardTimer)

\* ------------------------------------------------------------- properties
\* a step in which the oldest pending timer's callback runs
FiresTimer == timers # << >> /\ timers' = Tail(timers)
\* a step in which a handler schedules one timer
SchedulesTimer == Len(timers') = Len(timers) + 1 /\ SubSeq(timers', 1, Len(timers)) = timers
Scheduled == timers'[Len(timers')]

\* a learning timer scheduled by handleSpellingSubmit (the render that
\* schedules it has a current word, so its words.length is not 0)
FromSpellingSubmit(t) == t.kind = "learn" /\ t.len # firstRenderWordsLength
\* a learning timer scheduled by recognition.onresult
FromRecognition(t) == t.kind = "learn" /\ t.len = firstRenderWordsLength

\* a and b hold the same elements, each as often
\* the two results agree in all but the timestamp
SameResult(a, b) ==
    /\ a.mode = b.mode /\ a.questions = b.questions
    /\ a.score = b.score /\ a.maxScore = b.maxScore /\ a.percentage = b.percentage

IsPermutation(a, b) ==
    /\ Len(a) = Len(b)
    /\ \A x \in Range(a) \cup Range(b) :
          Cardinality({ i \in 1..Len(a) : a[i] = x })
            = Cardinality({ i \in 1..Len(b) : b[i] = x })

\* a step that starts a learning session or restarts it
StartsSession ==
    \/ appMode = "menu" /\ appMode' = "learning"
    \/ phase = "completed" /\ phase' = "welcome"

\* C1: whatever the timer of a correct spelling submission made at word index
\* i changes, it changes thus: from the last index the phase becomes
\* 'completed'; from an earlier index currentWordIndex becomes i + 1 and the
\* phase 'introduction'.
C1_CorrectSpellingAdvances ==
    [][(/\ FiresTimer
        /\ FromSpellingSubmit(Head(timers)) /\ Head(timers).isCorrect
        /\ << phase, currentWordIndex >>' # << phase, currentWordIndex >>)
       => IF Head(timers).idx = Head(timers).len - 1
          THEN phase' = "completed" /\ currentWordIndex' = Head(timers).idx
          ELSE phase' = "introduction" /\ currentWordIndex' = Head(timers).idx + 1]_vars

\* C2: the phase leaves 'pronunciation' only for 'spelling', and only when
\* the timer of a correct transcript (scheduled by recognition.onresult)
\* fires; nothing else moves the session out of 'pronunciation'.
C2_PronunciationLeftOnlyByTranscript ==
    [][(phase = "pronunciation" /\ phase' # "pronunciation")
       => /\ phase' = "spelling"
          /\ FiresTimer
          /\ FromRecognition(Head(timers)) /\ Head(timers).isCorrect]_vars

\* C3: an incorrect evaluation in learning mode changes neither phase nor
\* currentWordIndex when it is made, and when its timer fires nothing but
\* feedback (cleared) changes: the same word is up for retry in the same phase.
C3_IncorrectOnlyClearsFeedback ==
    [][/\ (SchedulesTimer /\ Scheduled.kind = "learn" /\ ~Scheduled.isCorrect)
          => /\ feedback' = "incorrect"
             /\ UNCHANGED << appMode, words, currentWordIndex, phase >>
       /\ (FiresTimer /\ Head(timers).kind = "learn" /\ ~Head(timers).isCorrect)
          => /\ feedback' = "null"
             /\ UNCHANGED << appMode, words, currentWordIndex, phase, inputVars,
                             micVars, hintVars, testVars >>]_vars

\* an incorrect spelling was evaluated and its timer is the next to fire
C3_Witness ==
    /\ LearningView /\ phase = "spelling" /\ feedback = "incorrect"
    /\ timers # << >>
    /\ Head(timers).kind = "learn" /\ ~Head(timers).isCorrect
    /\ ~MatchesCleanWord(inputValue, currentWord)

\* C4: a correct evaluation in learning mode only sets feedback (phase and
\* currentWordIndex stay); the phase moves on from 'pronunciation' or
\* 'spelling', and currentWordIndex grows, only in the step in which the
\* timer of a correct evaluation fires.
C4_TransitionOnlyWhenTimerFires ==
    [][/\ (SchedulesTimer /\ Scheduled.kind = "learn" /\ Scheduled.isCorrect)
          => /\ feedback' = "correct"
             /\ UNCHANGED << appMode, words, currentWordIndex, phase, inputValue >>
       /\ (\/ phase = "pronunciation" /\ phase' = "spelling"
           \/ phase = "spelling" /\ phase' \in { "introduction", "completed" }
           \/ currentWordIndex' > currentWordIndex)
          => /\ FiresTimer
             /\ Head(timers).kind = "learn" /\ Head(timers).isCorrect]_vars

\* a correct spelling was evaluated, its timer is pending, nothing has moved
C4_Witness ==
    /\ LearningView /\ phase = "spelling" /\ feedback = "correct"
    /\ timers # << >>
    /\ FromSpellingSubmit(Head(timers)) /\ Head(timers).isCorrect
    /\ Head(timers).idx = currentWordIndex
    /\ MatchesCleanWord(inputValue, currentWord)

\* C5: currentWordIndex < words.length whenever the phase is neither
\* 'welcome' nor 'completed'.
C5_IndexInRange ==
    phase \notin { "welcome", "completed" } => currentWordIndex < Len(words)

\* C6: the phase goes from 'mic-check' to 'introduction' only after a
\* transcript has arrived during that visit to mic-check.
C6_MicCheckNeedsTranscript ==
    [][(phase = "mic-check" /\ phase' = "introduction") => heardThisVisit]_vars

\* C7: words is always a permutation of the repository; a session start or
\* restart sets currentWordIndex to 0; otherwise words does not change and
\* currentWordIndex changes only by +1.
C7_PermutationAndMonotoneIndex ==
    [][/\ IsPermutation(words', WORDS_DATA)
       /\ StartsSession => currentWordIndex' = 0
       /\ ~StartsSession
          => /\ words' = words
             /\ currentWordIndex' \in { currentWordIndex, currentWordIndex + 1 }]_vars

\* a session restarted after an earlier one went through all its words
C7_Witness ==
    /\ LearningView /\ phase = "welcome"
    /\ micCheckStatus = "success"
    /\ currentWordIndex = 0

\* C8: a test answer submission sets feedback to correct or incorrect and
\* schedules one timer; when that timer fires, feedback is cleared and either
\* currentTestIndex grows by one, or, the submitted question being the last,
\* the test is finalized (one result appended, results view).
C8_SubmissionAdvancesOrFinalizes ==
    [][/\ (SchedulesTimer /\ Scheduled.kind \in { "easy", "hard" })
          => /\ feedback' = (IF Scheduled.isCorrect THEN "correct" ELSE "incorrect")
             /\ Scheduled.idx = currentTestIndex
             /\ testQuestions'[currentTestIndex + 1].answered
             /\ UNCHANGED << currentTestIndex, appMode, localStorage >>
       /\ (FiresTimer /\ Head(timers).kind \in { "easy", "hard" })
          => /\ feedback' = "null"
             /\ IF Head(timers).idx < Head(timers).len - 1
                THEN /\ currentTestIndex' = currentTestIndex + 1
                     /\ UNCHANGED << appMode, localStorage, testResult >>
                ELSE /\ currentTestIndex' = currentTestIndex
                     /\ appMode' = "test-results"
                     /\ Len(savedResults') = Len(savedResults) + 1
                     /\ SameResult(testResult'[1], savedResults'[Len(savedResults')])
                     /\ testResult'[1].questions = Head(timers).questions]_vars

\* the first question of a hard test was submitted and its timer has moved
\* the test on; the second, last, question was submitted and its timer pends
C8_Witness ==
    /\ appMode = "test-hard" /\ currentTestIndex = 1
    /\ testQuestions[1].answered
    /\ timers # << >>
    /\ Head(timers).kind = "hard" /\ Head(timers).idx = 1
    /\ feedback # "null"

\* C9: finishTest runs at most once for each generated test, and each run
\* appends one entry to the persisted results and leaves the others as they
\* were.
C9_OneResultPerTest ==
    [][(/\ FiresTimer
        /\ Head(timers).kind \in { "easy", "hard" }
        /\ ~(Head(timers).idx < Head(timers).len - 1))
       => /\ Head(timers).test \notin finishedTests
          /\ SubSeq(savedResults', 1, Len(savedResults)) = savedResults
          /\ Len(savedResults') = Len(savedResults) + 1]_vars

\* C10: once a question is answered, nothing changes it while its test
\* lasts, and the test keeps all its questions.
C10_QuestionMutatedOnce ==
    [][testsGenerated' = testsGenerated
       => /\ Len(testQuestions') = Len(testQuestions)
          /\ \A i \in 1..Len(testQuestions) :
                testQuestions[i].answered => testQuestions'[i] = testQuestions[i]]_vars

\* a step in which the oldest pending timer finalizes a test of the mode
Finalizes(mode) ==
    /\ FiresTimer
    /\ Head(timers).kind = mode
    /\ ~(Head(timers).idx < Head(timers).len - 1)
\* the question list the finalizing timer closed over
Finalized == Head(timers).questions

\* C11: an easy test in which every submitted answer is the question's
\* cleanWord is finalized with score = maxScore = number of questions and
\* percentage 100.
C11_PerfectEasyTest ==
    [][(/\ Finalizes("easy")
        /\ \A i \in 1..Len(Finalized) :
              Finalized[i].answered
                => Finalized[i].userAnswer = Finalized[i].word.cleanWord)
       => /\ testResult'[1].score = Len(Finalized)
          /\ testResult'[1].maxScore = Len(Finalized)
          /\ testResult'[1].percentage = 100]_vars

\* C12: a hard test in which every spelling check and every pronunciation
\* check is correct is finalized with score = 2 x number of questions and
\* percentage 100; one in which every check is wrong with score 0 and
\* percentage 0.
C12_PerfectAndFailedHardTest ==
    [][/\ (/\ Finalizes("hard")
           /\ \A i \in 1..Len(Finalized) :
                 Finalized[i].answered
                   => /\ Finalized[i].spellingCorrect = "true"
                      /\ Finalized[i].pronunciationCorrect = "true")
          => /\ testResult'[1].score = 2 * Len(Finalized)
             /\ testResult'[1].percentage = 100
       /\ (/\ Finalizes("hard")
           /\ \A i \in 1..Len(Finalized) :
                 Finalized[i].answered
                   => /\ Finalized[i].spellingCorrect = "false"
                      /\ Finalized[i].pronunciationCorrect = "false")
          => /\ testResult'[1].score = 0
             /\ testResult'[1].percentage = 0]_vars

\* p is 100 * s / m rounded to the nearest integer, halves up
IsPercentage(p, s, m) == 2 * m * p <= 200 * s + m /\ 200 * s + m < 2 * m * (p + 1)

\* C13: for every finalized test, maxScore is the question count (easy) or
\* twice the question count (hard), 0 <= score <= maxScore, and percentage is
\* 100 * score / maxScore rounded to the nearest integer with halves rounded
\* up, hence an integer in 0..100.
C13_ScoreAndPercentage ==
    [][\A mode \in { "easy", "hard" } :
         Finalizes(mode)
           => LET r == testResult'[1] IN
              /\ r.maxScore = (IF mode = "easy" THEN Len(Finalized)
                                ELSE 2 * Len(Finalized))
              /\ r.score \in 0..r.maxScore
              /\ r.percentage \in 0..100
              /\ IsPercentage(r.percentage, r.score, r.maxScore)]_vars

\* the repository entries whose clean form is not that of word
OtherEntries(word) ==
    { j \in 1..Len(WORDS_DATA) : WORDS_DATA[j].cleanWord # word.cleanWord }
\* the places of the options of q that do not hold its clean form
WrongPlaces(q) == { k \in 1..Len(q.options) : q.options[k] # q.word.cleanWord }
\* the options of q hold its clean form once
RightOnce(q) ==
    Cardinality({ k \in 1..Len(q.options) : q.options[k] = q.word.cleanWord }) = 1
\* the other options of q are the clean forms of as many other entries (the
\* clean forms of the repository being pairwise distinct)
FromDistinctOthers(q) ==
    /\ \A k \in WrongPlaces(q) :
          \E j \in OtherEntries(q.word) : WORDS_DATA[j].cleanWord = q.options[k]
    /\ \A k1, k2 \in WrongPlaces(q) : k1 # k2 => q.options[k1] # q.options[k2]

GeneratesTest == testsGenerated' = testsGenerated + 1

\* C15: a generated test holds 10 (easy) or 20 (hard) pairwise distinct
\* repository words when the repository has that many, else every repository
\* word once; generation sets currentTestIndex to 0 and leaves every question
\* unanswered.
C15_TestSize ==
    [][GeneratesTest
       => LET N == IF appMode' = "test-easy" THEN 10 ELSE 20
              n == Len(WORDS_DATA)
              generated == testQuestions'
          IN /\ appMode' \in { "test-easy", "test-hard" }
             /\ Len(generated) = (IF n >= N THEN N ELSE n)
             /\ \A i \in 1..Len(generated) :
                   /\ generated[i].word \in Range(WORDS_DATA)
                   /\ ~generated[i].answered
                   /\ \A j \in 1..Len(generated) :
                         i # j => generated[i].word # generated[j].word
             /\ currentTestIndex' = 0]_vars

\* an easy test of 10 words over 11, generated after a test that had been
\* left at its second question
C15_Witness ==
    /\ appMode = "test-easy" /\ Len(WORDS_DATA) = 11
    /\ Len(testQuestions) = 10
    /\ testsGenerated = 2 /\ currentTestIndex = 0

\* C16: an absent history key is read as the empty list, and finalizing a
\* test on an empty persisted history followed by reloading yields a
\* one-element list whose element equals the appended TestResult (mode,
\* questions, score, maxScore, percentage), the timestamp being the ISO
\* string of its Date.
C16_PersistenceRoundTrip ==
    [][/\ localStorage = << >> => savedResults = << >>
       /\ \A mode \in { "easy", "hard" } :
            (Finalizes(mode) /\ savedResults = << >>)
              => /\ Len(savedResults') = 1
                 /\ SameResult(savedResults'[1], testResult'[1])
                 /\ savedResults'[1].completedAt
                      = StringValue(toISOString(testResult'[1].completedAt))]_vars

\* a hard test was finalized on an absent history, some of its legs right
\* and some wrong
C16_Witness ==
    /\ appMode = "test-results"
    /\ testResult # << >> /\ testResult[1].mode = "hard"
    /\ testResult[1].score \notin { 0, testResult[1].maxScore }
    /\ Len(savedResults) = 1

\* the call i leaves the position pc in this step
Leaves(i, pc) ==
    /\ i <= Len(speakCalls) /\ speakCalls[i].pc = pc /\ speakCalls'[i].pc # pc

\* C17: of two calls of speakWithGoogleTTS with the same text whose synthesis
\* succeeds (each played the synthesized or the cached audio, no cleanup
\* between them), exactly one made a network synthesis call, whether the
\* second started after the first completed or while it awaited its response.
C17_OneSynthesisPerText ==
    \A i, j \in 1..Len(speakCalls) :
      (/\ i < j /\ cleanups = 0
       /\ speakCalls[i].text = speakCalls[j].text
       /\ speakCalls[i].outcome \in { "cached", "synthesized" }
       /\ speakCalls[j].outcome \in { "cached", "synthesized" })
        => speakCalls[i].fetches + speakCalls[j].fetches = 1

\* C18: right after cleanupAudioCache the cache has no entries and every
\* object URL that was in it is revoked; any other step keeps an entry for
\* every cached text, and changes the cache only by setting, on a successful
\* synthesis, the entry of the call's text to the URL just created.
C18_CleanupEmptiesAndRevokes ==
    [][/\ cleanups' # cleanups
          => /\ audioCache' = {}
             /\ CachedURLs \subseteq revokedURLs'
       /\ cleanups' = cleanups
          => /\ \A e \in audioCache : \E f \in audioCache' : f.text = e.text
             /\ audioCache' # audioCache
                  => \E i \in 1..Len(speakCalls) :
                       /\ Leaves(i, "json")
                       /\ speakCalls'[i].outcome = "synthesized"
                       /\ objectURLs' = objectURLs + 1
                       /\ audioCache' \ audioCache
                            = { [text |-> speakCalls[i].text, url |-> objectURLs'] }
                       /\ \A e \in audioCache \ audioCache' :
                            e.text = speakCalls[i].text]_vars

\* every call has synthesized and cached its audio, and cleanups have emptied
\* the cache and revoked all the URLs
C18_Witness ==
    /\ cleanups = MaxCleanups
    /\ audioCache = {}
    /\ Cardinality(revokedURLs) = MaxSpeakCalls

\* C19: when the cloud call of a speak call fails (a status that is not 2xx,
\* or a transport error), the fallback is invoked once for that call, nothing
\* is added to the cache, no second request is sent and the call's promise
\* resolves; nothing happens in that call afterwards.
C19_FailureFallsBackOnce ==
    [][\A i \in 1..Len(speakCalls) :
         /\ (Leaves(i, "fetch") /\ speakCalls'[i].pc # "json")
              => /\ speakCalls'[i].fallbacks = 1
                 /\ speakCalls'[i].fetches = 1
                 /\ speakCalls'[i].settled = "resolved"
                 /\ speakCalls'[i].pc = "done"
                 /\ audioCache' = audioCache
         /\ speakCalls[i].pc = "done"
              => /\ speakCalls'[i].pc = "done"
                 /\ speakCalls'[i].settled = speakCalls[i].settled
                 /\ speakCalls'[i].outcome = speakCalls[i].outcome
                 /\ speakCalls'[i].fetches = speakCalls[i].fetches
                 /\ speakCalls'[i].fallbacks = speakCalls[i].fallbacks]_vars

\* the cloud call of a speak call failed, and a later call for the same text
\* has sent its own request
C19_Witness ==
    \E i, j \in 1..Len(speakCalls) :
      /\ i < j /\ speakCalls[i].text = speakCalls[j].text
      /\ speakCalls[i].outcome = "failed" /\ speakCalls[i].fallbacks = 1
      /\ speakCalls[j].pc = "fetch"
      /\ audioCache = {}

\* C20: a 2xx response without audio payload is treated as a failed call: the
\* speak call goes to the fallback.
C20_NoPayloadFallsBack ==
    [][\A i \in 1..Len(speakCalls) :
         (Leaves(i, "json") /\ speakCalls'[i].outcome = "noAudio")
           => speakCalls'[i].fallbacks = speakCalls[i].fallbacks + 1]_vars

\* a session of the recogniser is active: start() was called and onend has
\* not run yet
SessionActive == recognition # "idle"

\* the step is none of the recogniser's callbacks (each of them moves the
\* session on)
NoRecognitionEvent == recognition' = recognition

\* C21: at most one recognition session is active at a time: while a session
\* is active a start request is a no-op, so that nothing but the session's
\* own callbacks changes micCheckStatus or micError.
C21_StartWhileActiveIsNoOp ==
    [][(SessionActive /\ NoRecognitionEvent)
       => UNCHANGED << micCheckStatus, micError >>]_vars

\* the session ends in this step (recognition.onend)
SessionEnds == recognition # "idle" /\ recognition' = "idle"

\* C22: when a recognition session ends the listening flag is cleared, and
\* when the session was started from mic-check and ends with no result (and
\* no error) reported, micCheckStatus becomes 'error' with the 'No speech
\* detected' message.
C22_EndWithoutResultIsError ==
    [][SessionEnds
       => /\ isListening' = FALSE
          /\ (/\ recognition = "listening"
              /\ phase = "mic-check" /\ micCheckStatus = "listening")
             => /\ micCheckStatus' = "error"
                /\ micError' = "No speech detected. Please try again."]_vars

\* C23: without API key each cloud client returns at once, no request sent:
\* getExampleSentence gives its fixed error string and speakWithGoogleTTS
\* goes to its fallback.
C23_NoKeyNoRequest ==
    VITE_GEMINI_API_KEY = "undefined"
      => /\ \A i \in 1..Len(sentenceCalls) :
              /\ sentenceCalls[i].fetches = 0
              /\ sentenceCalls[i].result = ApiKeyString
         /\ \A i \in 1..Len(speakCalls) :
              /\ speakCalls[i].fetches = 0
              /\ speakCalls[i].fallbacks = 1

\* r is text without the whitespace at its ends
IsTrimOf(r, text) ==
    /\ \E a, b \in 0..Len(text) :
         /\ a + Len(r) + b = Len(text)
         /\ \A k \in 1..Len(text) :
              IF k <= a \/ k > a + Len(r) THEN text[k] = " " ELSE text[k] = r[k - a]
    /\ r # << >> => r[1] # " " /\ r[Len(r)] # " "

\* C24: a call of getExampleSentence sends at most one request and its
\* promise is never rejected; with a key, it returns the fixed fallback
\* string after a transport failure, a response that is not 2xx, or a body
\* with no or an empty candidate list, and otherwise the first candidate's
\* text, trimmed; a call that has returned does nothing more.
C24_OneRequestNeverThrows ==
    [][\A i \in 1..Len(sentenceCalls') :
         LET call == sentenceCalls'[i] IN
         /\ call.fetches <= 1
         /\ call.settled # "rejected"
         /\ (call.pc = "done" /\ GEMINI_API_KEY # "")
              => IF \/ call.failed
                    \/ ~call.body.hasCandidates
                    \/ call.body.candidates = << >>
                 THEN call.result = SorryString
                 ELSE IsTrimOf(call.result, call.body.candidates[1].text)
         /\ (i <= Len(sentenceCalls) /\ sentenceCalls[i].pc = "done")
              => call = sentenceCalls[i]]_vars

\* one call has returned the trimmed text of the first of two candidates,
\* another the fallback string after a failure
C24_Witness ==
    \E i, j \in 1..Len(sentenceCalls) :
      /\ sentenceCalls[i].pc = "done" /\ ~sentenceCalls[i].failed
      /\ Len(sentenceCalls[i].body.candidates) = 2
      /\ sentenceCalls[i].body.candidates[1].text = << " ", "h", "i", " " >>
      /\ sentenceCalls[i].result = << "h", "i" >>
      /\ sentenceCalls[j].failed /\ sentenceCalls[j].result = SorryString

\* C25: feedback timers are not cancellable: no step but its firing removes
\* a pending timer, and the timer of a test answer, when it fires, applies
\* its transition to the state it finds (currentTestIndex grows by one, or
\* the test is finalized, persisted and the results view shown), also when
\* the test was left for the menu or another test was started meanwhile.
C25_TimersNotCancellable ==
    [][/\ ~FiresTimer
          => /\ Len(timers') >= Len(timers)
             /\ SubSeq(timers', 1, Len(timers)) = timers
       /\ (FiresTimer /\ Head(timers).kind \in { "easy", "hard" })
          => /\ feedback' = "null"
             /\ IF Head(timers).idx < Head(timers).len - 1
                THEN /\ currentTestIndex' = currentTestIndex + 1
                     /\ appMode' = appMode
                ELSE /\ appMode' = "test-results"
                     /\ testResult'[1].questions = Head(timers).questions
                     /\ Len(savedResults') = Len(savedResults) + 1
                     /\ SameResult(savedResults'[Len(savedResults')], testResult'[1])]_vars

\* a second test is at its second question with its first never answered:
\* the timer of the test left before has moved it on
C25_Witness ==
    /\ appMode = "test-easy" /\ testsGenerated = 2
    /\ currentTestIndex = 1
    /\ ~testQuestions[1].answered

\* C26: with no voice listed at the time of the fallback, nothing is spoken
\* before one of the two triggers (the 'voiceschanged' event, the 500 ms
\* timeout) has run, and each fallback invocation has the text spoken once
\* at most: the later trigger does not speak it again
C26_SpokenOncePerFallback ==
    \A i \in 1..Len(speakCalls) :
      /\ (speakCalls[i].listener /\ speakCalls[i].timeout)
           => speakCalls[i].utterances + speakCalls[i].spoken = 0
      /\ speakCalls[i].utterances + speakCalls[i].spoken <= speakCalls[i].fallbacks

\* a step in which the recogniser delivers a transcript (onresult; onerror
\* leaves the transcript alone)
DeliversResult ==
    /\ recognition = "listening" /\ recognition' = "closing"
    /\ transcript' # transcript

\* C27: a transcript goes to the consumer of the phase in which its session
\* was started: one of a session started in mic-check gives the mic-check
\* its success and is not compared as a pronunciation answer, one of a
\* session started in pronunciation does not touch the mic-check status
C27_RoutedByStartPhase ==
    [][DeliversResult
       => /\ sessionPhase = "mic-check"
               => /\ micCheckStatus' = "success"
                  /\ feedback' = feedback /\ timers' = timers
          /\ sessionPhase = "pronunciation"
               => micCheckStatus' = micCheckStatus]_vars

\* C28: feedback that is set ('correct' or 'incorrect') is null again later,
\* the pending timers being fired: no run leaves it set for ever
C28_FeedbackEventuallyCleared == (feedback # "null") ~> (feedback = "null")

\* the phase changes of the learning session
PhaseEdges ==
    { << "welcome", "mic-check" >>, << "mic-check", "introduction" >>,
      << "introduction", "pronunciation" >>, << "pronunciation", "spelling" >>,
      << "spelling", "introduction" >>, << "spelling", "completed" >>,
      << "completed", "welcome" >> }

\* C29: every change of the learning phase, by an event or by a timer, is one
\* of welcome -> mic-check, mic-check -> introduction, introduction ->
\* pronunciation, pronunciation -> spelling, spelling -> introduction,
\* spelling -> completed, completed -> welcome
C29_PhaseEdges == [][phase' # phase => << phase, phase' >> \in PhaseEdges]_vars

\* the grades, lowest first
Grades == << "D", "C", "B", "A", "A+" >>
GradeRank == [grade \in Range(Grades) |-> CHOOSE i \in 1..Len(Grades) : Grades[i] = grade]

InBand(percentage, grade) ==
    CASE percentage >= 90 -> grade = "A+"
      [] percentage >= 80 -> grade = "A"
      [] percentage >= 70 -> grade = "B"
      [] percentage >= 60 -> grade = "C"
      [] OTHER -> grade = "D"

\* C30: the grade of a finalized test is 'A+' from 90, 'A' for 80..89, 'B'
\* for 70..79, 'C' for 60..69 and 'D' below 60; over 0..100 the grade is
\* defined everywhere and never falls as the percentage rises
C30_GradeBands ==
    /\ (appMode = "test-results" /\ testResult # << >>)
         => /\ testResult[1].percentage \in 0..100
            /\ InBand(testResult[1].percentage, gradeInfo.grade)
    /\ \A percentage \in 0..100 :
         /\ getGrade(percentage).grade \in DOMAIN GradeRank
         /\ InBand(percentage, getGrade(percentage).grade)
         /\ percentage < 100
              => GradeRank[getGrade(percentage).grade]
                   <= GradeRank[getGrade(percentage + 1).grade]

\* the results of a test that ended at exactly 90 percent are shown, graded A+
C30_Witness ==
    /\ appMode = "test-results" /\ testResult # << >>
    /\ testResult[1].percentage = 90 /\ gradeInfo.grade = "A+"

\* C31: while a test over a non-empty repository is taken, currentTestIndex
\* is the index of one of its questions
C31_ActiveQuestion ==
    (appMode \in { "test-easy", "test-hard" } /\ Len(WORDS_DATA) > 0)
      => /\ 0 <= currentTestIndex
         /\ currentTestIndex < Len(testQuestions)

\* a step that takes the session past the current word
PassesWord ==
    \/ phase = "spelling" /\ phase' \in { "introduction", "completed" }
    \/ phase # "completed" /\ phase' = "completed"
    \/ currentWordIndex' > currentWordIndex

\* C32: the session passes word i (to the introduction of word i + 1 or to
\* 'completed') only by the timer of a correct spelling submission made
\* while word i was current, and enters 'completed' only at the last index
C32_NoStepSkipped ==
    [][PassesWord
       => /\ FiresTimer
          /\ FromSpellingSubmit(Head(timers)) /\ Head(timers).isCorrect
          /\ Head(timers).idx = currentWordIndex
          /\ phase' = "completed" => currentWordIndex = Len(words) - 1]_vars

\* C33: every question of the result of a finalized test has been answered
C33_AllAnswered ==
    [][\A mode \in { "easy", "hard" } :
         Finalizes(mode)
           => \A i \in 1..Len(testResult'[1].questions) :
                 testResult'[1].questions[i].answered]_vars

\* a step in which handlePronunciationNext records the active question
RecordsHardAnswer ==
    /\ appMode = "test-hard" /\ HasCurrentQuestion
    /\ SchedulesTimer /\ Scheduled.kind = "hard"

\* C34: the spellingCorrect recorded for a question of a hard test is the
\* outcome of the last spelling check, and it is 'true' only if that check
\* was the one of this question (its typed answer compared with the
\* question's own cleanWord): the check of another question is not credited
C34_SpellingOfOwnQuestion ==
    [][RecordsHardAnswer
       => /\ testQuestions'[currentTestIndex + 1].spellingCorrect
               = Bool(hardSpellingCorrect)
          /\ testQuestions'[currentTestIndex + 1].spellingCorrect = "true"
               => checkedQuestion = << testsGenerated, currentTestIndex >>]_vars

\* C35: when the pronunciation leg of a question of a hard test begins, the
\* transcript is empty, so that what is compared for the question was
\* recognized during its own pronunciation leg
C35_LegBeginsWithoutTranscript ==
    [][(/\ appMode' = "test-hard"
        /\ hardTestPhase = "spelling" /\ hardTestPhase' = "pronunciation")
       => transcript' = EmptyString]_vars

\* a step that makes another question of a hard test the active one
ActivatesHardQuestion ==
    /\ appMode' = "test-hard"
    /\ \/ GeneratesTest
       \/ appMode = "test-hard" /\ currentTestIndex' # currentTestIndex

\* C36: a question of a hard test becomes active in its spelling leg, and
\* its pronunciation leg is entered only after a spelling check of that
\* question
C36_SpellingLegFirst ==
    [][/\ ActivatesHardQuestion => hardTestPhase' = "spelling"
       /\ (/\ appMode' = "test-hard"
           /\ hardTestPhase = "spelling" /\ hardTestPhase' = "pronunciation")
          => checkedQuestion = << testsGenerated, currentTestIndex >>]_vars

\* C37: every object URL created so far is the cache entry of its text or
\* has been revoked, so that a cleanup leaves none unrevoked
C37_NoHandleLeaked ==
    \A url \in 1..objectURLs : url \in CachedURLs \/ url \in revokedURLs

\* C38: a hint sentence held by the session is the one of the current word:
\* the answer to a request made for an earlier word does not become the
\* hint of the word the session has advanced to
C38_HintOfCurrentWord ==
    (/\ LearningView /\ HasCurrentWord
     /\ hint # EmptyString /\ hint # SorryString)
      => hint = ExampleSentence(currentWord.cleanWord)

\* C39: outside the learning mode the phase is 'welcome' or 'completed', and
\* no step taken during a test changes phase or currentWordIndex or
\* schedules the timer of a learning evaluation
C39_TestsOutsideLearning ==
    [][/\ appMode \in { "menu", "test-easy", "test-hard", "test-results" }
            => phase \in { "welcome", "completed" }
       /\ appMode \in { "test-easy", "test-hard" }
            => /\ UNCHANGED << phase, currentWordIndex >>
               /\ ~(SchedulesTimer /\ Scheduled.kind = "learn")]_vars

====
